---- MODULE Spec2Model ----
(***************************************************************************)
(* A model of ced (src/main.c): the line buffer `editor`, the undo/redo    *)
(* stacks, the dirty-line flags and the key handlers of process_keypress,  *)
(* driven by the event loop of main().                                     *)
(*                                                                         *)
(* `editor` is modelled as the C object it is: MAX_LINES * MAX_COLS bytes  *)
(* of text followed by five ints.  A line is the C string that starts at   *)
(* its row, i.e. the bytes up to the next NUL, wherever that NUL lies.     *)
(***************************************************************************)
EXTENDS Integers, Sequences, FiniteSets, TLC

(* ------------------------------------------------------------------ *)
(* Sizes.  The program's capacities are scaled down so that the cases   *)
(* at the capacities are reached.                                       *)
(* ------------------------------------------------------------------ *)
\* src/main.c:27  #define MAX_LINES 1000 (scaled)
MAX_LINES == 3
\* src/main.c:28  #define MAX_COLS 1024 (scaled)
MAX_COLS == 4
\* src/main.c:32  #define UNDO_STACK_SIZE 100 (scaled)
UNDO_STACK_SIZE == 2
\* src/main.c:30
LINE_NUMBER_WIDTH == 8
\* src/main.c:316, 884: the shell panel takes 10 rows when open
SHELL_PANEL_HEIGHT == 10
\* getmaxyx(stdscr, rows, cols): the terminal's size
ScreenRows == 3
ScreenCols == 10
\* sizeof(int) on the platforms the editor builds for
INT_BYTES == 4
\* the number of keys the event loop processes in a run of the model: with every
\* key (Spec), with the four editing keys (SpecEdit), with the keys of SpecNav
MaxKeys == 3
MaxEditKeys == 7
MaxNavKeys == 5
MaxDrawKeys == 3
MaxTypeKeys == 4
MaxLineKeys == 5
MaxLoadKeys == 4

\* bytes: NUL, and the characters the model types and loads
NUL == 0
CH_TAB == 9
CH_NL == 10
CH_SP == 32
CH_SLASH == 47
CH_a == 97
CH_b == 98
CH_USCORE == 95
\* #define SEARCH_COLOR_PAIR 200
SEARCH_COLOR_PAIR == 200

TextSize == MAX_LINES * MAX_COLS
StructSize == TextSize + 5 * INT_BYTES

Pow256(k) == IF k = 0 THEN 1 ELSE IF k = 1 THEN 256 ELSE IF k = 2 THEN 65536 ELSE 16777216

\* byte k (little-endian) of the int v >= 0
ByteOf(v, k) == (v \div Pow256(k)) % 256

\* the int v with byte k replaced by b
SetByte(v, k, b) == v - ByteOf(v, k) * Pow256(k) + b * Pow256(k)

\* The address of row y of editor.text, as an offset into `editor`.
Row(y) == y * MAX_COLS

InStruct(off) == off >= 0 /\ off < StructSize

\* The byte at offset off of the object `editor` (struct Editor, src/main.c:82-90).
Peek(e, off) ==
    IF off < TextSize THEN e.text[off]
    ELSE LET f == (off - TextSize) \div INT_BYTES
             k == (off - TextSize) % INT_BYTES
         IN  CASE f = 0 -> ByteOf(e.num_lines, k)
               [] f = 1 -> ByteOf(e.cursor_x, k)
               [] f = 2 -> ByteOf(e.cursor_y, k)
               [] f = 3 -> ByteOf(e.row_offset, k)
               [] OTHER -> ByteOf(e.col_offset, k)

\* `editor` after the byte b is stored at offset off.
Poke(e, off, b) ==
    IF off < TextSize THEN [e EXCEPT !.text[off] = b]
    ELSE LET f == (off - TextSize) \div INT_BYTES
             k == (off - TextSize) % INT_BYTES
         IN  CASE f = 0 -> [e EXCEPT !.num_lines = SetByte(@, k, b)]
               [] f = 1 -> [e EXCEPT !.cursor_x = SetByte(@, k, b)]
               [] f = 2 -> [e EXCEPT !.cursor_y = SetByte(@, k, b)]
               [] f = 3 -> [e EXCEPT !.row_offset = SetByte(@, k, b)]
               [] OTHER -> [e EXCEPT !.col_offset = SetByte(@, k, b)]

RECURSIVE StrLenFrom(_, _, _)
StrLenFrom(e, p, k) ==
    IF ~InStruct(p + k) THEN -1
    ELSE IF Peek(e, p + k) = NUL THEN k
    ELSE StrLenFrom(e, p, k + 1)

\* strlen of the C string at offset p; -1 when no NUL follows inside `editor`.
StrLen(e, p) == IF InStruct(p) THEN StrLenFrom(e, p, 0) ELSE -1

\* The C string at offset p (StrLen(e, p) >= 0), as a sequence of bytes.
CStr(e, p) == [i \in 1..StrLen(e, p) |-> Peek(e, p + i - 1)]

RECURSIVE PokeSeq(_, _, _, _)
PokeSeq(e, p, s, i) ==
    IF i > Len(s) THEN e ELSE PokeSeq(Poke(e, p + i - 1, s[i]), p, s, i + 1)

\* `editor` after the bytes of s and a terminating NUL are stored from offset p on.
PokeStr(e, p, s) == Poke(PokeSeq(e, p, s, 1), p + Len(s), NUL)

(* ------------------------------------------------------------------ *)
(* The program state as one record ("world"), threaded through the      *)
(* handlers.  A handler maps a world to the set of worlds it can leave: *)
(* one world where the C code is defined, several where it is not.      *)
(* ------------------------------------------------------------------ *)
VARIABLES
    editor,             \* Editor editor                      (src/main.c:82-91)
    undo_stack,         \* undo_stack[0 .. undo_stack_top)     (src/main.c:103-104)
    redo_stack,         \* redo_stack[0 .. redo_stack_top)     (src/main.c:105-106)
    line_dirty,         \* static int line_dirty[MAX_LINES]    (src/main.c:109)
    dirty,              \* int dirty                           (src/main.c:45)
    config,             \* Config config                       (src/main.c:37-42)
    show_line_numbers,  \* static int show_line_numbers        (src/main.c:35)
    shell_panel_open,   \* static int shell_panel_open         (src/main.c:127)
    show_help,          \* static int show_help                (src/main.c:139)
    g_searchTerm,       \* static char g_searchTerm[128]       (src/main.c:133)
    g_searchActive,     \* static int g_searchActive           (src/main.c:134)
    current_file,       \* char current_file[]                 (src/main.c:44)
    global_syntax_defs, \* SH_SyntaxDefinitions                (src/main.c:70)
    selected_syntax,    \* index of *selected_syntax, 0 = NULL (src/main.c:71)
    syntax_enabled,     \* int syntax_enabled                  (src/main.c:72)
    token_lookup,       \* token_lookup[0 .. token_lookup_count) (src/main.c:79-80)
    screen,             \* the rows of stdscr the text area draws on
    terminal,           \* the colours and pairs sh_init_syntax_colors registers with curses
    disk,               \* the files the editor can open: path -> bytes
    crashed,            \* the process has left defined behaviour and ended
    pc,                 \* position in main(): "start", "refresh", "key" or "exit";
                        \* "draw" and "drawn" around a lone call of draw_line
    keys                \* number of keys processed

vars == <<editor, undo_stack, redo_stack, line_dirty, dirty, config,
          show_line_numbers, shell_panel_open, show_help, g_searchTerm,
          g_searchActive, current_file, global_syntax_defs, selected_syntax,
          syntax_enabled, token_lookup, screen, terminal, disk, crashed, pc, keys>>

World ==
    [editor |-> editor, undo_stack |-> undo_stack, redo_stack |-> redo_stack,
     line_dirty |-> line_dirty, dirty |-> dirty, config |-> config,
     show_line_numbers |-> show_line_numbers, shell_panel_open |-> shell_panel_open,
     show_help |-> show_help, g_searchTerm |-> g_searchTerm,
     g_searchActive |-> g_searchActive, current_file |-> current_file,
     global_syntax_defs |-> global_syntax_defs, selected_syntax |-> selected_syntax,
     syntax_enabled |-> syntax_enabled, token_lookup |-> token_lookup,
     screen |-> screen, terminal |-> terminal, disk |-> disk, crashed |-> crashed,
     exited |-> FALSE]

\* The process ends abnormally (or its memory outside `editor` is overwritten).
Crash(w) == [w EXCEPT !.crashed = TRUE]

SetEd(w, e) == [w EXCEPT !.editor = e]

\* Run F on every world of S that is still running.
Bind(S, F(_)) == UNION {IF w.crashed THEN {w} ELSE F(w) : w \in S}

\* src/main.c:110-116
editor_mark_line_dirty(w, line) ==
    IF line >= 0 /\ line < MAX_LINES THEN [w EXCEPT !.line_dirty[line] = 1] ELSE w

\* src/main.c:117-124
editor_mark_all_lines_dirty(w) ==
    [w EXCEPT !.line_dirty = [i \in 0..(MAX_LINES - 1) |-> 1]]

\* strcpy(editor + dst, editor + src), both inside `editor`.  Copying forward byte
\* by byte: with dst below src every byte is read before it is overwritten; with
\* dst inside the source string the terminator is overwritten before it is read
\* and the copy runs away.  Overlapping operands are undefined for the library
\* call, so a checking build may also end the process.
StrCpyMem(w, dst, src) ==
    LET e == w.editor
        n == StrLen(e, src)
    IN  IF n < 0 \/ ~InStruct(dst) \/ ~InStruct(dst + n) THEN {Crash(w)}
        ELSE IF dst > src /\ dst <= src + n THEN {Crash(w)}
        ELSE IF dst < src /\ dst + n >= src
             THEN {SetEd(w, PokeStr(e, dst, CStr(e, src))), Crash(w)}
        ELSE {SetEd(w, PokeStr(e, dst, CStr(e, src)))}

\* strcat that overwrites its destination instead of appending to it
StrCatMem_overwrites(w, dst, src) == StrCpyMem(w, dst, src)

\* strcat(editor + dst, editor + src)
StrCatMem(w, dst, src) ==
    LET n == StrLen(w.editor, dst)
    IN  IF n < 0 THEN {Crash(w)} ELSE StrCpyMem(w, dst + n, src)

\* strcpy(editor + dst, s) from a local buffer s into a row of editor.text.  A
\* string of MAX_COLS bytes or more runs over the end of the row: undefined, the
\* bytes land in the rows that follow or a checking build ends the process.
StrCpyLocal(w, dst, s) ==
    IF ~InStruct(dst) \/ ~InStruct(dst + Len(s)) THEN {Crash(w)}
    ELSE IF Len(s) >= MAX_COLS
         THEN {SetEd(w, PokeStr(w.editor, dst, s)), Crash(w)}
    ELSE {SetEd(w, PokeStr(w.editor, dst, s))}

\* strcpy(local, editor + src) into a local char[MAX_COLS]: the string read, and
\* the worlds left.  A string of MAX_COLS bytes or more overruns the stack buffer:
\* undefined, the process goes on with the string or ends.
ReadLocal(w, src) ==
    LET n == StrLen(w.editor, src)
    IN  IF n < 0 THEN {Crash(w)}
        ELSE IF n >= MAX_COLS THEN {w, Crash(w)}
        ELSE {w}

(* ------------------------------------------------------------------ *)
(* Undo / redo                                                          *)
(* ------------------------------------------------------------------ *)
\* save_state_undo with the redo history kept
save_state_undo_keeps_redo(w) ==
    LET pushed == IF Len(w.undo_stack) < UNDO_STACK_SIZE
                  THEN Append(w.undo_stack, w.editor)
                  ELSE w.undo_stack
    IN  [w EXCEPT !.undo_stack = pushed, !.dirty = 1]

\* save_state_undo with a full stack dropping its oldest entry for the new one
save_state_undo_evicts(w) ==
    LET pushed == IF Len(w.undo_stack) < UNDO_STACK_SIZE
                  THEN Append(w.undo_stack, w.editor)
                  ELSE Append(Tail(w.undo_stack), w.editor)
    IN  [w EXCEPT !.undo_stack = pushed, !.redo_stack = <<>>, !.dirty = 1]

\* undo with the cursor column left where it is
undo_keeps_cursor(w) ==
    IF Len(w.undo_stack) > 0
    THEN LET st == w.undo_stack[Len(w.undo_stack)]
             w1 == [w EXCEPT !.undo_stack = SubSeq(@, 1, Len(@) - 1)]
             w2 == IF Len(w1.redo_stack) < UNDO_STACK_SIZE
                   THEN [w1 EXCEPT !.redo_stack = Append(@, w.editor)]
                   ELSE w1
         IN  editor_mark_all_lines_dirty(
                 [w2 EXCEPT !.editor = [st EXCEPT !.cursor_x = w.editor.cursor_x],
                            !.dirty = 1])
    ELSE w

\* redo that pops its entry without restoring it
redo_pops_only(w) ==
    IF Len(w.redo_stack) > 0
    THEN LET w1 == [w EXCEPT !.redo_stack = SubSeq(@, 1, Len(@) - 1)]
             w2 == IF Len(w1.undo_stack) < UNDO_STACK_SIZE
                   THEN [w1 EXCEPT !.undo_stack = Append(@, w.editor)]
                   ELSE w1
         IN  editor_mark_all_lines_dirty([w2 EXCEPT !.dirty = 1])
    ELSE w

\* src/main.c:239-254
save_state_undo(w) ==
    LET pushed == IF Len(w.undo_stack) < UNDO_STACK_SIZE
                  THEN Append(w.undo_stack, w.editor)
                  ELSE w.undo_stack
    IN  [w EXCEPT !.undo_stack = pushed, !.redo_stack = <<>>, !.dirty = 1]

\* src/main.c:256-281
undo(w) ==
    IF Len(w.undo_stack) > 0
    THEN LET st == w.undo_stack[Len(w.undo_stack)]
             w1 == [w EXCEPT !.undo_stack = SubSeq(@, 1, Len(@) - 1)]
             w2 == IF Len(w1.redo_stack) < UNDO_STACK_SIZE
                   THEN [w1 EXCEPT !.redo_stack = Append(@, w.editor)]
                   ELSE w1
         IN  editor_mark_all_lines_dirty([w2 EXCEPT !.editor = st, !.dirty = 1])
    ELSE w

\* src/main.c:283-308
redo(w) ==
    IF Len(w.redo_stack) > 0
    THEN LET st == w.redo_stack[Len(w.redo_stack)]
             w1 == [w EXCEPT !.redo_stack = SubSeq(@, 1, Len(@) - 1)]
             w2 == IF Len(w1.undo_stack) < UNDO_STACK_SIZE
                   THEN [w1 EXCEPT !.undo_stack = Append(@, w.editor)]
                   ELSE w1
         IN  editor_mark_all_lines_dirty([w2 EXCEPT !.editor = st, !.dirty = 1])
    ELSE w

\* src/main.c:311-340.  Defined by the program and called from nowhere in it.
update_viewport(w) ==
    LET e == w.editor
        shell_panel_height == IF w.shell_panel_open = 1 THEN SHELL_PANEL_HEIGHT ELSE 0
        vis == ScreenRows - 1 - shell_panel_height
        w1 == IF e.cursor_y < e.row_offset
              THEN editor_mark_all_lines_dirty([w EXCEPT !.editor.row_offset = e.cursor_y])
              ELSE IF e.cursor_y >= e.row_offset + vis
              THEN editor_mark_all_lines_dirty(
                       [w EXCEPT !.editor.row_offset = e.cursor_y - (vis - 1)])
              ELSE w
        usable == ScreenCols - (IF w.show_line_numbers = 1 THEN LINE_NUMBER_WIDTH ELSE 0)
    IN  IF e.cursor_x < e.col_offset
        THEN editor_mark_all_lines_dirty([w1 EXCEPT !.editor.col_offset = e.cursor_x])
        ELSE IF e.cursor_x >= e.col_offset + usable
        THEN editor_mark_all_lines_dirty(
                 [w1 EXCEPT !.editor.col_offset = e.cursor_x - usable + 1])
        ELSE w1

(* ------------------------------------------------------------------ *)
(* Editor operations                                                    *)
(* ------------------------------------------------------------------ *)
\* src/main.c:227-236
init_editor ==
    [text |-> [i \in 0..(TextSize - 1) |-> NUL], num_lines |-> 1,
     cursor_x |-> 0, cursor_y |-> 0, row_offset |-> 0, col_offset |-> 0]

\* src/main.c:972-975: for (i = len; i >= editor.cursor_x; i--) line[i + 1] = line[i];
RECURSIVE ShiftRight(_, _, _)
ShiftRight(e, line, i) ==
    IF i >= e.cursor_x
    THEN ShiftRight(Poke(e, line + i + 1, Peek(e, line + i)), line, i - 1)
    ELSE e

\* line[idx] with idx >= MAX_COLS lies outside the row: undefined.  The build
\* addresses the byte at that offset of `editor` (the world v), or a checking
\* build ends the process.
OutsideRow(w, idx, v) == IF idx >= MAX_COLS THEN {v, Crash(w)} ELSE {v}

\* editor_insert_char without the test for a full line
editor_insert_char_unchecked(w, ch) ==
    LET e == w.editor
        line == Row(e.cursor_y)
        len == StrLen(e, line)
    IN  IF len < 0 THEN {Crash(w)}
        ELSE LET e1 == ShiftRight(e, line, len)
                 off == line + e1.cursor_x
             IN  IF ~InStruct(off) THEN {Crash(w)}
                 ELSE LET e2 == Poke(e1, off, ch)
                          e3 == [e2 EXCEPT !.cursor_x = @ + 1]
                      IN  OutsideRow(w, e1.cursor_x,
                                     editor_mark_line_dirty(SetEd(w, e3), e3.cursor_y))

\* src/main.c:963-979.  A store outside `editor` overwrites whatever object the
\* linker placed there; the model ends the run at that point.
editor_insert_char(w, ch) ==
    LET e == w.editor
        line == Row(e.cursor_y)
        len == StrLen(e, line)
    IN  IF len < 0 THEN {Crash(w)}
        ELSE IF len >= MAX_COLS - 1 THEN {w}
        ELSE LET e1 == ShiftRight(e, line, len)
                 off == line + e1.cursor_x
             IN  IF ~InStruct(off) THEN {Crash(w)}
                 ELSE LET e2 == Poke(e1, off, ch)
                          e3 == [e2 EXCEPT !.cursor_x = @ + 1]
                      IN  OutsideRow(w, e1.cursor_x,
                                     editor_mark_line_dirty(SetEd(w, e3), e3.cursor_y))

\* src/main.c:996-999 and 1036-1039: for (i = from; i < editor.num_lines - 1; i++)
\*     strcpy(editor.text[i], editor.text[i + 1]);
RECURSIVE ShiftLinesUp(_, _)
ShiftLinesUp(w, i) ==
    IF i < w.editor.num_lines - 1
    THEN Bind(StrCpyMem(w, Row(i), Row(i + 1)), LAMBDA v : ShiftLinesUp(v, i + 1))
    ELSE {w}

\* src/main.c:1069-1072 and 1111-1114: for (i = from; i > y + 1; i--)
\*     strcpy(editor.text[i], editor.text[i - 1]);
RECURSIVE ShiftLinesDown(_, _, _)
ShiftLinesDown(w, i, y) ==
    IF i > y + 1
    THEN Bind(StrCpyMem(w, Row(i), Row(i - 1)), LAMBDA v : ShiftLinesDown(v, i - 1, y))
    ELSE {w}

\* src/main.c:1012-1015 and 1047-1050: for (i = from; i < len; i++) line[i] = line[i + 1];
RECURSIVE ShiftLeft(_, _, _, _)
ShiftLeft(e, line, i, len) ==
    IF i < len
    THEN ShiftLeft(Poke(e, line + i, Peek(e, line + i + 1)), line, i + 1, len)
    ELSE e

\* editor_delete_char with the cursor left behind the deleted character
editor_delete_char_keeps_cursor(w) ==
    LET e == w.editor
    IN  IF e.cursor_x = 0
        THEN IF e.cursor_y = 0 THEN {w}
             ELSE LET prev_len == StrLen(e, Row(e.cursor_y - 1))
                  IN  Bind(Bind(StrCatMem(w, Row(e.cursor_y - 1), Row(e.cursor_y)),
                                LAMBDA v : ShiftLinesUp(v, v.editor.cursor_y)),
                           LAMBDA v : {editor_mark_all_lines_dirty(
                               [v EXCEPT !.editor.num_lines = @ - 1,
                                         !.editor.cursor_y = @ - 1,
                                         !.editor.cursor_x = prev_len])})
        ELSE LET line == Row(e.cursor_y)
                 len == StrLen(e, line)
             IN  IF len < 0 THEN {Crash(w)}
                 ELSE LET e1 == ShiftLeft(e, line, e.cursor_x - 1, len)
                      IN  OutsideRow(w, len,
                                     editor_mark_line_dirty(SetEd(w, e1), e1.cursor_y))

\* src/main.c:982-1019
editor_delete_char(w) ==
    LET e == w.editor
    IN  IF e.cursor_x = 0
        THEN IF e.cursor_y = 0 THEN {w}
             ELSE LET prev_len == StrLen(e, Row(e.cursor_y - 1))
                  IN  Bind(Bind(StrCatMem(w, Row(e.cursor_y - 1), Row(e.cursor_y)),
                                LAMBDA v : ShiftLinesUp(v, v.editor.cursor_y)),
                           LAMBDA v : {editor_mark_all_lines_dirty(
                               [v EXCEPT !.editor.num_lines = @ - 1,
                                         !.editor.cursor_y = @ - 1,
                                         !.editor.cursor_x = prev_len])})
        ELSE LET line == Row(e.cursor_y)
                 len == StrLen(e, line)
             IN  IF len < 0 THEN {Crash(w)}
                 ELSE LET e1 == ShiftLeft(e, line, e.cursor_x - 1, len)
                          e2 == [e1 EXCEPT !.cursor_x = @ - 1]
                      IN  OutsideRow(w, len,
                                     editor_mark_line_dirty(SetEd(w, e2), e2.cursor_y))

\* src/main.c:1022-1053
editor_delete_at_cursor(w) ==
    LET e == w.editor
        line == Row(e.cursor_y)
        len == StrLen(e, line)
    IN  IF len < 0 THEN {Crash(w)}
        ELSE IF e.cursor_x = len
        THEN IF e.cursor_y = e.num_lines - 1 THEN {w}
             ELSE Bind(Bind(StrCatMem(w, line, Row(e.cursor_y + 1)),
                            LAMBDA v : ShiftLinesUp(v, v.editor.cursor_y + 1)),
                       LAMBDA v : {editor_mark_all_lines_dirty(
                           [v EXCEPT !.editor.num_lines = @ - 1])})
        ELSE LET e1 == ShiftLeft(e, line, e.cursor_x, len)
             IN  OutsideRow(w, len, editor_mark_line_dirty(SetEd(w, e1), e1.cursor_y))

\* src/main.c:1076-1080: while (line[indent] == ' ' && indent < MAX_COLS - 1) indent++;
RECURSIVE CountIndent(_, _, _)
CountIndent(e, line, indent) ==
    IF InStruct(line + indent) /\ Peek(e, line + indent) = CH_SP /\ indent < MAX_COLS - 1
    THEN CountIndent(e, line, indent + 1)
    ELSE indent

Spaces(n) == [i \in 1..n |-> CH_SP]

Take(s, n) == SubSeq(s, 1, IF n < Len(s) THEN n ELSE Len(s))

\* src/main.c:1055-1099
editor_insert_newline(w) ==
    LET e == w.editor
        y == e.cursor_y
        line == Row(y)
    IN  IF e.num_lines >= MAX_LINES THEN {w}
        ELSE IF StrLen(e, line) < 0 \/ StrLen(e, line + e.cursor_x) < 0 THEN {Crash(w)}
        ELSE LET remainder == CStr(e, line + e.cursor_x)
                 cut(v) == OutsideRow(v, v.editor.cursor_x,
                                      SetEd(v, Poke(v.editor, line + v.editor.cursor_x, NUL)))
                 fill(v) ==
                     IF v.config.auto_indent = 1
                     THEN LET indent == CountIndent(v.editor, line, 0)
                              new_line == Spaces(indent) \o Take(remainder, MAX_COLS - indent - 1)
                          IN  Bind(StrCpyLocal(v, Row(v.editor.cursor_y + 1), new_line),
                                   LAMBDA u : {[u EXCEPT !.editor.cursor_x = indent]})
                     ELSE Bind(StrCpyLocal(v, Row(v.editor.cursor_y + 1), remainder),
                               LAMBDA u : {[u EXCEPT !.editor.cursor_x = 0]})
                 done(v) == {editor_mark_all_lines_dirty(
                                [v EXCEPT !.editor.num_lines = @ + 1,
                                          !.editor.cursor_y = @ + 1])}
             IN  Bind(Bind(Bind(Bind(ReadLocal(w, line + e.cursor_x), cut),
                                LAMBDA v : ShiftLinesDown(v, v.editor.num_lines,
                                                          v.editor.cursor_y)),
                           fill), done)

\* editor_duplicate_line marking only the line duplicated and its copy
editor_duplicate_line_marks_two(w) ==
    IF w.editor.num_lines >= MAX_LINES THEN {w}
    ELSE LET w1 == save_state_undo(w)
             y == w1.editor.cursor_y
         IN  Bind(Bind(ShiftLinesDown(w1, w1.editor.num_lines, y),
                       LAMBDA v : StrCpyMem(v, Row(y + 1), Row(y))),
                  LAMBDA v : {editor_mark_line_dirty(editor_mark_line_dirty(
                      [v EXCEPT !.editor.num_lines = @ + 1, !.editor.cursor_y = @ + 1],
                      y), y + 1)})

\* src/main.c:1102-1119
editor_duplicate_line(w) ==
    IF w.editor.num_lines >= MAX_LINES THEN {w}
    ELSE LET w1 == save_state_undo(w)
             y == w1.editor.cursor_y
         IN  Bind(Bind(ShiftLinesDown(w1, w1.editor.num_lines, y),
                       LAMBDA v : StrCpyMem(v, Row(y + 1), Row(y))),
                  LAMBDA v : {editor_mark_all_lines_dirty(
                      [v EXCEPT !.editor.num_lines = @ + 1, !.editor.cursor_y = @ + 1])})

\* src/main.c:1122-1148
editor_kill_line(w) ==
    IF w.editor.num_lines = 1 /\ w.editor.cursor_y = 0
    THEN {editor_mark_line_dirty(
             [w EXCEPT !.editor = [Poke(w.editor, Row(0), NUL) EXCEPT !.cursor_x = 0]], 0)}
    ELSE LET w1 == save_state_undo(w)
             clamp(v) ==
                 LET n == v.editor.num_lines - 1
                     y1 == IF v.editor.cursor_y >= n THEN n - 1 ELSE v.editor.cursor_y
                     y2 == IF y1 < 0 THEN 0 ELSE y1
                 IN  {editor_mark_all_lines_dirty(
                         [v EXCEPT !.editor.num_lines = n, !.editor.cursor_y = y2,
                                   !.editor.cursor_x = 0])}
         IN  Bind(ShiftLinesUp(w1, w1.editor.cursor_y), clamp)

\* src/main.c:1151-1155
editor_toggle_line_numbers(w) ==
    editor_mark_all_lines_dirty([w EXCEPT !.show_line_numbers = 1 - @])

\* src/main.c:1158-1163
editor_goto_top(w) ==
    editor_mark_all_lines_dirty([w EXCEPT !.editor.cursor_y = 0, !.editor.cursor_x = 0])

\* src/main.c:1166-1175
editor_goto_bottom(w) ==
    LET y1 == w.editor.num_lines - 1
        y == IF y1 < 0 THEN 0 ELSE y1
        ll == StrLen(w.editor, Row(y))
    IN  IF ll < 0 THEN {Crash(w)}
        ELSE {editor_mark_all_lines_dirty(
                 [w EXCEPT !.editor.cursor_y = y, !.editor.cursor_x = ll])}

IsDigit(b) == b >= 48 /\ b <= 57

IsSpace(b) == b = CH_SP \/ (b >= 9 /\ b <= 13)

\* half an int, as a modulus: magnitudes are kept in two halves, hi and lo,
\* since they outgrow the integers of the checker
HalfInt == Pow256(INT_BYTES \div 2)

\* the largest int
IntMax == (HalfInt \div 2 - 1) * HalfInt + (HalfInt - 1)

\* the digits strtol can take without leaving a long twice as wide as an int
LongDigits == 19

RECURSIVE AtoiDigits(_, _, _)
\* the decimal digits from s[i] on: the magnitude modulo 2^32 as hi * HalfInt + lo,
\* whether it outgrew 32 bits (big), and the number of digits after leading zeros
AtoiDigits(s, i, acc) ==
    IF i <= Len(s) /\ IsDigit(s[i])
    THEN LET lo1 == acc.lo * 10 + (s[i] - 48)
             hi1 == acc.hi * 10 + lo1 \div HalfInt
         IN  AtoiDigits(s, i + 1,
                 [lo |-> lo1 % HalfInt, hi |-> hi1 % HalfInt,
                  big |-> acc.big \/ hi1 >= HalfInt,
                  nd |-> IF acc.nd = 0 /\ s[i] = 48 THEN 0 ELSE acc.nd + 1])
    ELSE acc

RECURSIVE SkipSpace(_, _)
SkipSpace(s, i) == IF i <= Len(s) /\ IsSpace(s[i]) THEN SkipSpace(s, i + 1) ELSE i

\* leading white space, an optional sign, then decimal digits
AtoiParse(s) ==
    LET i == SkipSpace(s, 1)
        zero == [lo |-> 0, hi |-> 0, big |-> FALSE, nd |-> 0]
    IN  IF i <= Len(s) /\ s[i] = 45 THEN [neg |-> TRUE, m |-> AtoiDigits(s, i + 1, zero)]
        ELSE IF i <= Len(s) /\ s[i] = 43 THEN [neg |-> FALSE, m |-> AtoiDigits(s, i + 1, zero)]
        ELSE [neg |-> FALSE, m |-> AtoiDigits(s, i, zero)]

\* hi * HalfInt + lo read as a two's complement int
SignedInt(hi, lo) ==
    IF hi >= HalfInt \div 2 THEN (hi - HalfInt) * HalfInt + lo ELSE hi * HalfInt + lo

\* the value cut to the width of an int, as a conversion from a wider long does
WrapInt(neg, m) ==
    IF ~neg THEN SignedInt(m.hi, m.lo)
    ELSE IF m.lo = 0 THEN SignedInt((HalfInt - m.hi) % HalfInt, 0)
    ELSE SignedInt(HalfInt - 1 - m.hi, HalfInt - m.lo)

\* What atoi(line_str) can return (src/main.c:1202).  A value an int cannot hold
\* is undefined behaviour: builds return the value cut to an int (strtol into a
\* long twice as wide), the nearest int (strtol into a long as wide as an int),
\* or, beyond the long, the saturated long cut to an int.
Atoi(s) ==
    LET p == AtoiParse(s)
        m == p.m
        fits == /\ ~m.big
                /\ \/ m.hi < HalfInt \div 2
                   \/ (p.neg /\ m.hi = HalfInt \div 2 /\ m.lo = 0)
        nearest == IF p.neg THEN 0 - IntMax - 1 ELSE IntMax
    IN  IF fits THEN {WrapInt(p.neg, m)}
        ELSE IF m.nd <= LongDigits THEN {WrapInt(p.neg, m), nearest}
        ELSE {IF p.neg THEN 0 ELSE 0 - 1, nearest}

\* src/main.c:1193-1215; line_str is what the prompt returned
editor_goto_line(w, line_str) ==
    IF line_str = <<>> THEN {w}
    ELSE {LET ln1 == IF ln0 < 1 THEN 1 ELSE ln0
              ln == IF ln1 > w.editor.num_lines THEN w.editor.num_lines ELSE ln1
          IN  editor_mark_all_lines_dirty(
                  [w EXCEPT !.editor.cursor_y = ln - 1, !.editor.cursor_x = 0]) :
          ln0 \in Atoi(line_str)}

\* src/main.c:740-754; term is what the prompt returned
editor_search(w, term) ==
    IF term = <<>> THEN [w EXCEPT !.g_searchActive = 0, !.g_searchTerm = <<>>]
    ELSE editor_mark_all_lines_dirty([w EXCEPT !.g_searchTerm = term, !.g_searchActive = 1])

\* s has t at position i (1-based)
HasAt(s, i, t) == i + Len(t) - 1 <= Len(s) /\ SubSeq(s, i, i + Len(t) - 1) = t

RECURSIVE StrStr(_, _, _)
\* strstr: the first position >= i where t occurs in s, 0 when there is none
StrStr(s, i, t) ==
    IF i + Len(t) - 1 > Len(s) THEN 0
    ELSE IF HasAt(s, i, t) THEN i
    ELSE StrStr(s, i + 1, t)

\* strncat(out, src, n) into char buffer[MAX_COLS * 2]
Strncat(out, src, n) == out \o Take(src, n)

RECURSIVE ReplaceLine(_, _, _, _, _)
\* src/main.c:774-788: the loop over one line; `out` is buffer, `start` a 1-based
\* position in s.  The result is <<buffer, overran>>: strncat(out, start, seg_len)
\* is not bounded by sizeof(buffer).
ReplaceLine(s, start, out, oldstr, newstr) ==
    LET cap == MAX_COLS * 2
        pos == StrStr(s, start, oldstr)
    IN  IF Len(out) > cap - 1 THEN <<out, TRUE>>
        ELSE IF pos = 0
        THEN <<Strncat(out, SubSeq(s, start, Len(s)), cap - Len(out) - 1), FALSE>>
        ELSE LET out1 == Strncat(out, SubSeq(s, start, Len(s)), pos - start)
             IN  IF Len(out1) > cap - 1 THEN <<out1, TRUE>>
                 ELSE ReplaceLine(s, pos + Len(oldstr),
                                  Strncat(out1, newstr, cap - Len(out1) - 1),
                                  oldstr, newstr)

\* strncpy(line, buffer, MAX_COLS - 1); line[MAX_COLS - 1] = '\0';
Strncpy(e, line, buffer) ==
    LET src == Take(buffer, MAX_COLS - 1)
        padded == src \o [i \in 1..(MAX_COLS - 1 - Len(src)) |-> NUL]
    IN  Poke(PokeSeq(e, line, padded, 1), line + MAX_COLS - 1, NUL)

RECURSIVE ReplaceLines(_, _, _, _)
\* src/main.c:767-792
ReplaceLines(w, i, oldstr, newstr) ==
    IF i < w.editor.num_lines
    THEN IF StrLen(w.editor, Row(i)) < 0 \/ ~InStruct(Row(i) + MAX_COLS - 1) THEN {Crash(w)}
         ELSE LET r == ReplaceLine(CStr(w.editor, Row(i)), 1, <<>>, oldstr, newstr)
                  w1 == editor_mark_line_dirty(
                            SetEd(w, Strncpy(w.editor, Row(i), r[1])), i)
              IN  IF r[2]
                  THEN {Crash(w)} \cup ReplaceLines(w1, i + 1, oldstr, newstr)
                  ELSE ReplaceLines(w1, i + 1, oldstr, newstr)
    ELSE {w}

\* replace-all as a destructive key: with a snapshot before the replacement
editor_replace_all_snapshots(w, oldstr, newstr) ==
    IF oldstr = <<>> THEN {w}
    ELSE Bind(ReplaceLines(save_state_undo(w), 0, oldstr, newstr),
              LAMBDA v : {[v EXCEPT !.dirty = 1]})

\* src/main.c:756-795; oldstr and newstr are what the two prompts returned
editor_replace_all(w, oldstr, newstr) ==
    IF oldstr = <<>> THEN {w}
    ELSE Bind(ReplaceLines(w, 0, oldstr, newstr), LAMBDA v : {[v EXCEPT !.dirty = 1]})

(* ------------------------------------------------------------------ *)
(* Syntax definitions and the token table                               *)
(* ------------------------------------------------------------------ *)
\* A definition is [extensions, rules]; a rule is [tokens, r, g, b, color_pair]
\* (src/main.c:48-62); strings are sequences of bytes.

RECURSIVE StrCmpLE(_, _)
\* strcmp(a, b) <= 0 (src/main.c:620-625)
StrCmpLE(a, b) ==
    IF a = <<>> THEN TRUE
    ELSE IF b = <<>> THEN FALSE
    ELSE IF a[1] # b[1] THEN a[1] < b[1]
    ELSE StrCmpLE(Tail(a), Tail(b))

\* !strcmp(filename + flen - elen, ext), src/main.c:587-593
HasSuffix(name, ext) ==
    /\ Len(name) >= Len(ext)
    /\ SubSeq(name, Len(name) - Len(ext) + 1, Len(name)) = ext

\* src/main.c:581-597
sh_file_has_extension(filename, def) ==
    \E i \in 1..Len(def.extensions) : HasSuffix(filename, def.extensions[i])

(* ------------------------------------------------------------------ *)
(* The syntax-definition parser, src/main.c:145-163 and 346-554          *)
(* ------------------------------------------------------------------ *)
\* the characters of the rule language
CH_QUOTE == 34
CH_LPAREN == 40
CH_RPAREN == 41
CH_COMMA == 44
CH_SEMI == 59
CH_EQ == 61
CH_LBRACE == 123
CH_RBRACE == 125
\* #define SH_MAX_LINE_LENGTH 1024
SH_MAX_LINE_LENGTH == 1024
\* "SYNTAX"
SyntaxWord == <<83, 89, 78, 84, 65, 88>>

RECURSIVE StrChr(_, _, _)
\* strchr from position i (1-based) on: the first position holding c, 0 for NULL
StrChr(s, i, c) ==
    IF i > Len(s) THEN 0
    ELSE IF s[i] = c THEN i
    ELSE StrChr(s, i + 1, c)

RECURSIVE TrimRight(_)
\* src/main.c:156-161: while (end > str && isspace(*end))
TrimRight(s) ==
    IF Len(s) > 1 /\ IsSpace(s[Len(s)]) THEN TrimRight(SubSeq(s, 1, Len(s) - 1)) ELSE s

\* src/main.c:145-163
trim_whitespace(str) ==
    LET i == SkipSpace(str, 1)
    IN  IF i > Len(str) THEN <<>> ELSE TrimRight(SubSeq(str, i, Len(str)))

RECURSIVE sh_count_tokens_from(_, _, _)
\* src/main.c:350-362: p is a 1-based position.  After a quoted string is counted
\* p moves one character on, not past the closing quote, so that quote is taken
\* for the next opening one.
sh_count_tokens_from(line, p, count) ==
    LET q == StrChr(line, p, CH_QUOTE)
    IN  IF q = 0 THEN count
        ELSE IF StrChr(line, q + 1, CH_QUOTE) = 0 THEN count
        ELSE sh_count_tokens_from(line, q + 2, count + 1)

\* src/main.c:346-364
sh_count_tokens(line) == sh_count_tokens_from(line, 1, 0)

RECURSIVE RuleTokensFrom(_, _, _, _)
\* src/main.c:379-396: the quoted strings of the rule, at most count of them
RuleTokensFrom(line, p, count, toks) ==
    LET q == StrChr(line, p, CH_QUOTE)
    IN  IF q = 0 \/ Len(toks) >= count THEN toks
        ELSE LET end_quote == StrChr(line, q + 1, CH_QUOTE)
             IN  IF end_quote = 0 THEN toks
                 ELSE RuleTokensFrom(line, end_quote + 1, count,
                                     Append(toks, SubSeq(line, q + 1, end_quote - 1)))

RECURSIVE DigitsEnd(_, _)
\* the position after the decimal digits that start at i
DigitsEnd(s, i) == IF i <= Len(s) /\ IsDigit(s[i]) THEN DigitsEnd(s, i + 1) ELSE i

\* the directives of a scanf format: white space, %d, or a literal character
FMT_WS == 0
FMT_D == 0 - 1
\* " ( %d , %d , %d )" and " (%d,%d,%d)", src/main.c:415-416
FormatSpaced ==
    <<FMT_WS, CH_LPAREN, FMT_WS, FMT_D, FMT_WS, CH_COMMA, FMT_WS, FMT_D, FMT_WS, CH_COMMA,
      FMT_WS, FMT_D, FMT_WS, CH_RPAREN>>
FormatTight ==
    <<FMT_WS, CH_LPAREN, FMT_D, CH_COMMA, FMT_D, CH_COMMA, FMT_D, CH_RPAREN>>

RECURSIVE SScanf(_, _, _, _, _)
\* sscanf(s + i - 1, fmt, ...) from directive k on: the sequences of ints it can
\* have stored when it stops.  %d skips white space, takes an optional sign and
\* the digits, and converts them as strtol does (see Atoi).
SScanf(s, i, fmt, k, vals) ==
    IF k > Len(fmt) THEN {vals}
    ELSE IF fmt[k] = FMT_WS THEN SScanf(s, SkipSpace(s, i), fmt, k + 1, vals)
    ELSE IF fmt[k] = FMT_D
    THEN LET j == SkipSpace(s, i)
             d == IF j <= Len(s) /\ (s[j] = 45 \/ s[j] = 43) THEN j + 1 ELSE j
             e == DigitsEnd(s, d)
         IN  IF e = d THEN {vals}
             ELSE UNION {SScanf(s, e, fmt, k + 1, Append(vals, v)) :
                            v \in Atoi(SubSeq(s, j, e - 1))}
    ELSE IF i <= Len(s) /\ s[i] = fmt[k] THEN SScanf(s, i + 1, fmt, k + 1, vals)
    ELSE {vals}

\* src/main.c:366-427: the outcomes of parsing one rule; ok is the return value
\* 0.  tokens holds the slots that were written, token_count the number of
\* slots the rule claims to have.
sh_parse_rule_line(line) ==
    LET count == sh_count_tokens(line)
        toks == IF count > 0 THEN RuleTokensFrom(line, 1, count, <<>>) ELSE <<>>
        rule(r, g, b) == [tokens |-> toks, token_count |-> count,
                          r |-> r, g |-> g, b |-> b, color_pair |-> 0]
        failed == [ok |-> FALSE, rule |-> rule(0, 0, 0)]
        eq == StrChr(line, 1, CH_EQ)
        paren == IF eq = 0 THEN 0 ELSE StrChr(line, eq, CH_LPAREN)
    IN  IF eq = 0 \/ paren = 0 THEN {failed}
        ELSE LET first == SScanf(line, paren, FormatSpaced, 1, <<>>)
                 second == SScanf(line, paren, FormatTight, 1, <<>>)
                 stored(S) == {[ok |-> TRUE, rule |-> rule(v[1], v[2], v[3])] :
                                  v \in {u \in S : Len(u) >= 3}}
             IN  stored(first)
                     \cup (IF \E u \in first : Len(u) < 3
                           THEN stored(second)
                                    \cup (IF \E u \in second : Len(u) < 3 THEN {failed} ELSE {})
                           ELSE {})

RECURSIVE ShFGetsLen(_, _, _)
\* fgets(line, sizeof(line), fp) with char line[SH_MAX_LINE_LENGTH]: the number of
\* bytes read from position pos on
ShFGetsLen(bytes, pos, n) ==
    IF pos + n > Len(bytes) \/ n >= SH_MAX_LINE_LENGTH - 1 THEN n
    ELSE IF bytes[pos + n] = CH_NL THEN n + 1
    ELSE ShFGetsLen(bytes, pos, n + 1)

\* one fgets: the line trimmed, the position after it, and whether fgets
\* returned NULL
ShReadLine(bytes, pos) ==
    LET n == ShFGetsLen(bytes, pos, 0)
    IN  [eof |-> n = 0, next |-> pos + n,
         trimmed |-> trim_whitespace(SubSeq(bytes, pos, pos + n - 1))]

RECURSIVE HeaderExtensions(_, _, _)
\* src/main.c:453-481: the non-empty quoted strings after the word SYNTAX
HeaderExtensions(trimmed, p, exts) ==
    IF p > Len(trimmed) THEN exts
    ELSE IF trimmed[p] = CH_QUOTE
    THEN LET end == StrChr(trimmed, p + 1, CH_QUOTE)
         IN  IF end = 0 THEN exts
             ELSE HeaderExtensions(trimmed, end + 1,
                      IF end - (p + 1) > 0
                      THEN Append(exts, SubSeq(trimmed, p + 1, end - 1)) ELSE exts)
    ELSE HeaderExtensions(trimmed, p + 1, exts)

\* char rulebuf[4 * SH_MAX_LINE_LENGTH]
RuleBufSize == 4 * SH_MAX_LINE_LENGTH

\* strncat(rulebuf, src, sizeof(rulebuf) - strlen(rulebuf) - 2)
RuleCat(rulebuf, src) == rulebuf \o Take(src, RuleBufSize - Len(rulebuf) - 2)

RECURSIVE RuleAccumulate(_, _, _)
\* src/main.c:499-521: lines are gathered until one holds a semicolon; done when
\* the input ends or a line starts with the closing brace
RuleAccumulate(bytes, pos, rulebuf) ==
    LET l == ShReadLine(bytes, pos)
    IN  IF l.eof THEN [done |-> TRUE, rulebuf |-> rulebuf, next |-> l.next]
        ELSE IF l.trimmed # <<>> /\ l.trimmed[1] = CH_RBRACE
        THEN [done |-> TRUE, rulebuf |-> rulebuf, next |-> l.next]
        ELSE IF l.trimmed = <<>> THEN RuleAccumulate(bytes, l.next, rulebuf)
        ELSE LET buf == RuleCat(RuleCat(rulebuf, l.trimmed), <<CH_SP>>)
             IN  IF StrChr(l.trimmed, 1, CH_SEMI) # 0
                 THEN [done |-> FALSE, rulebuf |-> buf, next |-> l.next]
                 ELSE RuleAccumulate(bytes, l.next, buf)

RECURSIVE RuleBlock(_, _, _)
\* src/main.c:494-545: the rules of one block, and the position after it
RuleBlock(bytes, pos, rules) ==
    LET acc == RuleAccumulate(bytes, pos, <<>>)
        rtrim == trim_whitespace(acc.rulebuf)
    IN  IF acc.done THEN {[rules |-> rules, next |-> acc.next]}
        ELSE IF rtrim = <<>> THEN RuleBlock(bytes, acc.next, rules)
        ELSE UNION {RuleBlock(bytes, acc.next,
                              IF p.ok THEN Append(rules, p.rule) ELSE rules) :
                       p \in sh_parse_rule_line(rtrim)}

RECURSIVE SyntaxDefinitionsFrom(_, _, _)
\* src/main.c:442-549: the loop over the lines of the file
SyntaxDefinitionsFrom(bytes, pos, defs) ==
    LET l == ShReadLine(bytes, pos)
    IN  IF l.eof THEN {defs}
        ELSE IF Take(l.trimmed, Len(SyntaxWord)) = SyntaxWord
        THEN LET exts == HeaderExtensions(l.trimmed, Len(SyntaxWord) + 1, <<>>)
                 brace == ShReadLine(bytes, l.next)
             IN  IF brace.eof THEN {defs}
                 ELSE IF brace.trimmed = <<>> \/ brace.trimmed[1] # CH_LBRACE
                 THEN SyntaxDefinitionsFrom(bytes, brace.next, defs)
                 ELSE UNION {SyntaxDefinitionsFrom(bytes, blk.next,
                                 Append(defs, [extensions |-> exts, rules |-> blk.rules])) :
                                blk \in RuleBlock(bytes, brace.next, <<>>)}
        ELSE SyntaxDefinitionsFrom(bytes, l.next, defs)

\* src/main.c:429-554; the file is given by its bytes, or does not open
sh_load_syntax_definitions(files, filename) ==
    IF filename \notin DOMAIN files THEN {<<>>}
    ELSE SyntaxDefinitionsFrom(files[filename], 1, <<>>)

\* src/main.c:599-618: pair 1, 2, 3, ... in rule order
sh_init_syntax_colors(def) ==
    [def EXCEPT !.rules = [i \in 1..Len(def.rules) |->
                              [def.rules[i] EXCEPT !.color_pair = i]]]

\* short next_color_index = 16, src/main.c:601
FIRST_COLOR == 16
\* the divisor and the factor of the rescaling, src/main.c:608-610
RGB_MAX == 255
CURSES_MAX == 1000

\* a / b as C divides ints, b > 0: towards zero
TruncDiv(a, b) == IF a >= 0 THEN a \div b ELSE 0 - ((0 - a) \div b)

\* (short)x: the value cut to the two bytes of a short
ToShort(x) == ((x + HalfInt \div 2) % HalfInt) - HalfInt \div 2

\* v * 1000 cut to the width of an int, computed in two halves
WrapTimes1000(v) ==
    LET lo == (v % HalfInt) * CURSES_MAX
        hi == (((v \div HalfInt) % HalfInt) * CURSES_MAX + lo \div HalfInt) % HalfInt
    IN  SignedInt(hi, lo % HalfInt)

\* v * 1000 leaves the range of an int: undefined behaviour
TimesOverflows(v) == v > IntMax \div CURSES_MAX \/ v < 0 - (IntMax \div CURSES_MAX)

\* (short)((v * 1000) / 255), src/main.c:608-610, with the product wrapped when it
\* overflows
Scaled(v) ==
    ToShort(TruncDiv(IF TimesOverflows(v) THEN WrapTimes1000(v) ELSE v * CURSES_MAX, RGB_MAX))

\* the terminal before any colour is registered; can_change_color() is a
\* property of the terminal
InitTerminal == [can_change_color |-> TRUE, colors |-> <<>>, pairs |-> <<>>]

\* g with index k set to v
Registered(g, k, v) == [x \in (DOMAIN g) \cup {k} |-> IF x = k THEN v ELSE g[x]]

RECURSIVE RegisterColors(_, _, _)
\* src/main.c:603-617, the calls made for rule i and the rules after it:
\* init_color(color_num, r_scaled, g_scaled, b_scaled) when the terminal can
\* change colours, init_pair(pair_idx, color_num, -1) always
RegisterColors(t, rules, i) ==
    IF i > Len(rules) THEN t
    ELSE LET color_num == FIRST_COLOR + i - 1
             rgb == <<Scaled(rules[i].r), Scaled(rules[i].g), Scaled(rules[i].b)>>
             t1 == IF t.can_change_color
                   THEN [t EXCEPT !.colors = Registered(@, color_num, rgb)] ELSE t
         IN  RegisterColors([t1 EXCEPT !.pairs = Registered(@, i, color_num)], rules, i + 1)

\* a rule whose r * 1000, g * 1000 or b * 1000 overflows
ScalingOverflows(def) ==
    \E i \in 1..Len(def.rules) :
        TimesOverflows(def.rules[i].r) \/ TimesOverflows(def.rules[i].g)
            \/ TimesOverflows(def.rules[i].b)

\* a rule with slots of tokens[] that sh_parse_rule_line allocated and never
\* wrote (token_count counts more strings than the rule holds)
UnsetSlots(def) ==
    \E i \in 1..Len(def.rules) : def.rules[i].token_count > Len(def.rules[i].tokens)

RECURSIVE FlattenRules(_, _)
\* src/main.c:642-654: every token of every rule, in rule order, with the pair
\* of its rule
FlattenRules(rules, i) ==
    IF i > Len(rules) THEN <<>>
    ELSE [j \in 1..Len(rules[i].tokens) |->
             [token |-> rules[i].tokens[j], color_pair |-> rules[i].color_pair]]
         \o FlattenRules(rules, i + 1)

\* qsort(token_lookup, ..., compare_token_map), src/main.c:655-658: any
\* arrangement in strcmp order; the order of equal tokens is not specified
SortedTables(flat) ==
    LET n == Len(flat)
        perms == {p \in [1..n -> 1..n] : \A i, j \in 1..n : i # j => p[i] # p[j]}
        tables == {[i \in 1..n |-> flat[p[i]]] : p \in perms}
    IN  {t \in tables : \A i \in 1..n : i < n => StrCmpLE(t[i].token, t[i + 1].token)}

\* src/main.c:627-659: the tables build_token_lookup can leave when every slot
\* that was never written reads as NULL and is passed over (line 647)
build_token_lookup(def) ==
    LET flat == FlattenRules(def.rules, 1)
    IN  IF Len(flat) = 0 THEN {<<>>} ELSE SortedTables(flat)

RECURSIVE SelectSyntax(_, _)
\* src/main.c:1346-1365: the first definition with a matching extension.  The
\* process leaves defined behaviour when a colour product overflows, or when a
\* slot of tokens[] that was never written does not read as NULL.
SelectSyntax(w, i) ==
    IF i > Len(w.global_syntax_defs) THEN {w}
    ELSE IF sh_file_has_extension(w.current_file, w.global_syntax_defs[i])
    THEN LET w1 == [w EXCEPT !.selected_syntax = i, !.syntax_enabled = 1]
             d == sh_init_syntax_colors(w.global_syntax_defs[i])
             w2 == [w1 EXCEPT !.global_syntax_defs[i] = d,
                              !.terminal = RegisterColors(@, d.rules, 1)]
         IN  IF Len(d.rules) > 0
             THEN {[w2 EXCEPT !.token_lookup = t] : t \in build_token_lookup(d)}
                      \cup (IF ScalingOverflows(d) \/ UnsetSlots(d)
                            THEN {Crash(w2)} ELSE {})
             ELSE {w1}
    ELSE SelectSyntax(w, i + 1)

(* ------------------------------------------------------------------ *)
(* Files                                                                *)
(* ------------------------------------------------------------------ *)
\* "saves/"
SavesDir == <<115, 97, 118, 101, 115, CH_SLASH>>

\* strchr(filename, '/')
HasSlash(name) == \E i \in 1..Len(name) : name[i] = CH_SLASH

\* src/main.c:1237-1257 and 1296-1303: a name without a slash lives under saves/
PathOf(name) == IF HasSlash(name) THEN name ELSE SavesDir \o name

RECURSIVE FGetsLen(_, _, _)
\* fgets(line_buffer, MAX_COLS, fp): the number of bytes read from position pos
\* (1-based) on: at most MAX_COLS - 1, stopping after a newline
FGetsLen(bytes, pos, n) ==
    IF pos + n > Len(bytes) \/ n >= MAX_COLS - 1 THEN n
    ELSE IF bytes[pos + n] = CH_NL THEN n + 1
    ELSE FGetsLen(bytes, pos, n + 1)

RECURSIVE LoadLines(_, _, _)
\* src/main.c:1316-1325: the lines read, each without its newline
LoadLines(bytes, pos, lines) ==
    LET n == FGetsLen(bytes, pos, 0)
        chunk == SubSeq(bytes, pos, pos + n - 1)
        stripped == IF n > 0 /\ chunk[n] = CH_NL THEN SubSeq(chunk, 1, n - 1) ELSE chunk
    IN  IF n = 0 \/ Len(lines) >= MAX_LINES THEN lines
        ELSE LoadLines(bytes, pos + n, Append(lines, stripped))

\* editor.text after memset and the strncpy of each line into its row
TextOf(lines) ==
    [off \in 0..(TextSize - 1) |->
        LET y == off \div MAX_COLS
            x == off % MAX_COLS
        IN  IF y < Len(lines) /\ x < Len(lines[y + 1]) THEN lines[y + 1][x + 1] ELSE NUL]

\* editor_load_file with the buffer cleared before fopen is tried
editor_load_file_clears_first(w, filename, opens) ==
    IF filename = <<>> THEN {w}
    ELSE LET filepath == PathOf(filename)
             lines == IF ~opens \/ filepath \notin DOMAIN w.disk THEN <<>>
                      ELSE LoadLines(w.disk[filepath], 1, <<>>)
             e == [text |-> TextOf(lines),
                   num_lines |-> IF Len(lines) = 0 THEN 1 ELSE Len(lines),
                   cursor_x |-> 0, cursor_y |-> 0,
                   row_offset |-> 0, col_offset |-> 0]
         IN  IF ~opens \/ filepath \notin DOMAIN w.disk
             THEN {editor_mark_all_lines_dirty([w EXCEPT !.editor = e])}
             ELSE {editor_mark_all_lines_dirty(
                      [w EXCEPT !.editor = e, !.current_file = filepath, !.dirty = 0,
                                !.syntax_enabled = 0])}

\* a load that starts a new history: both stacks emptied with the buffer
editor_load_file_resets_history(w, filename, opens) ==
    IF filename = <<>> THEN {w}
    ELSE LET filepath == PathOf(filename)
         IN  IF ~opens \/ filepath \notin DOMAIN w.disk THEN {w}
             ELSE LET lines == LoadLines(w.disk[filepath], 1, <<>>)
                      e == [text |-> TextOf(lines),
                            num_lines |-> IF Len(lines) = 0 THEN 1 ELSE Len(lines),
                            cursor_x |-> 0, cursor_y |-> 0,
                            row_offset |-> 0, col_offset |-> 0]
                      w1 == [w EXCEPT !.editor = e, !.current_file = filepath,
                                      !.dirty = 0, !.syntax_enabled = 0,
                                      !.undo_stack = <<>>, !.redo_stack = <<>>]
                  IN  {editor_mark_all_lines_dirty(v) : v \in SelectSyntax(w1, 1)}

\* src/main.c:1283-1373; filename is what the prompt returned, opens tells whether
\* fopen succeeds
editor_load_file(w, filename, opens) ==
    IF filename = <<>> THEN {w}
    ELSE LET filepath == PathOf(filename)
         IN  IF ~opens \/ filepath \notin DOMAIN w.disk THEN {w}
             ELSE LET lines == LoadLines(w.disk[filepath], 1, <<>>)
                      e == [text |-> TextOf(lines),
                            num_lines |-> IF Len(lines) = 0 THEN 1 ELSE Len(lines),
                            cursor_x |-> 0, cursor_y |-> 0,
                            row_offset |-> 0, col_offset |-> 0]
                      w1 == [w EXCEPT !.editor = e, !.current_file = filepath,
                                      !.dirty = 0, !.syntax_enabled = 0]
                  IN  {editor_mark_all_lines_dirty(v) : v \in SelectSyntax(w1, 1)}

RECURSIVE SaveBytes(_, _)
\* src/main.c:1269-1272: fprintf(fp, "%s\n", editor.text[i]) for every line
SaveBytes(e, i) ==
    IF i < e.num_lines THEN CStr(e, Row(i)) \o <<CH_NL>> \o SaveBytes(e, i + 1) ELSE <<>>

RECURSIVE LinesTerminated(_, _)
LinesTerminated(e, i) ==
    IF i < e.num_lines THEN StrLen(e, Row(i)) >= 0 /\ LinesTerminated(e, i + 1) ELSE TRUE

\* src/main.c:1218-1280; typed is what the "Save as" prompt returns when it is
\* shown, opens tells whether fopen succeeds
editor_save_file(w, typed, opens) ==
    LET filename == IF w.current_file # <<>> THEN w.current_file ELSE typed
    IN  IF filename = <<>> THEN {w}
        ELSE LET w1 == [w EXCEPT !.current_file = PathOf(filename)]
             IN  IF ~opens THEN {w1}
                 ELSE IF ~LinesTerminated(w1.editor, 0) THEN {Crash(w1)}
                 ELSE {[w1 EXCEPT !.disk = [p \in DOMAIN w1.disk \cup {w1.current_file} |->
                                               IF p = w1.current_file
                                               THEN SaveBytes(w1.editor, 0)
                                               ELSE w1.disk[p]],
                                  !.dirty = 0]}

(* ------------------------------------------------------------------ *)
(* Keys                                                                 *)
(* ------------------------------------------------------------------ *)
\* A key event with what the environment supplies while it is handled: n, m are
\* the character or the mouse position, s, t the prompt results, ok the result of
\* fopen.
Key(k, n, m, s, t, ok) == [k |-> k, n |-> n, m |-> m, s |-> s, t |-> t, ok |-> ok]

Plain(k) == Key(k, 0, 0, <<>>, <<>>, TRUE)

RECURSIVE InsertN(_, _, _)
InsertN(w, ch, n) ==
    IF n = 0 THEN {w}
    ELSE Bind(editor_insert_char(w, ch), LAMBDA v : InsertN(v, ch, n - 1))

\* src/main.c:1384-1412: BUTTON1_CLICKED at screen position (event.y, event.x)
MouseClick(w, ey, ex) ==
    LET e == w.editor
        y0 == ey + e.row_offset
        x0 == IF y0 >= 0 /\ y0 < e.num_lines
              THEN ex - (IF w.show_line_numbers = 1 THEN LINE_NUMBER_WIDTH ELSE 0)
                      + e.col_offset
              ELSE 0
        y1 == IF y0 >= e.num_lines THEN e.num_lines - 1 ELSE y0
        new_y == IF y1 < 0 THEN 0 ELSE y1
        ll == StrLen(e, Row(new_y))
        x1 == IF x0 < 0 THEN 0 ELSE x0
        new_x == IF x1 > ll THEN ll ELSE x1
    IN  IF ll < 0 THEN {Crash(w)}
        ELSE {editor_mark_all_lines_dirty(
                 [w EXCEPT !.editor.cursor_y = new_y, !.editor.cursor_x = new_x])}

\* cursor_y moved by d and clamped as src/main.c:1415-1419, 1424-1428, 1500-1504,
\* 1508-1512 do
MoveRows(w, d) ==
    LET y == w.editor.cursor_y + d
        c == IF d < 0 THEN (IF y < 0 THEN 0 ELSE y)
             ELSE (IF y >= w.editor.num_lines THEN w.editor.num_lines - 1 ELSE y)
    IN  editor_mark_all_lines_dirty([w EXCEPT !.editor.cursor_y = c])

\* src/main.c:1532-1544
KeyLeft(w) ==
    LET e == w.editor
    IN  IF e.cursor_x > 0
        THEN {editor_mark_line_dirty([w EXCEPT !.editor.cursor_x = @ - 1], e.cursor_y)}
        ELSE IF e.cursor_y > 0
        THEN LET ll == StrLen(e, Row(e.cursor_y - 1))
             IN  IF ll < 0 THEN {Crash(w)}
                 ELSE {editor_mark_all_lines_dirty(
                          [w EXCEPT !.editor.cursor_y = @ - 1, !.editor.cursor_x = ll])}
        ELSE {w}

\* src/main.c:1545-1560
KeyRight(w) ==
    LET e == w.editor
        length == StrLen(e, Row(e.cursor_y))
    IN  IF length < 0 THEN {Crash(w)}
        ELSE IF e.cursor_x < length
        THEN {editor_mark_line_dirty([w EXCEPT !.editor.cursor_x = @ + 1], e.cursor_y)}
        ELSE IF e.cursor_y < e.num_lines - 1
        THEN {editor_mark_all_lines_dirty(
                 [w EXCEPT !.editor.cursor_y = @ + 1, !.editor.cursor_x = 0])}
        ELSE {w}

\* src/main.c:1561-1588: KEY_UP (d = -1) and KEY_DOWN (d = 1)
KeyUpDown(w, d) ==
    LET e == w.editor
        moves == IF d < 0 THEN e.cursor_y > 0 ELSE e.cursor_y < e.num_lines - 1
        ll == StrLen(e, Row(e.cursor_y + d))
    IN  IF ~moves THEN {w}
        ELSE IF ll < 0 THEN {Crash(w)}
        ELSE {editor_mark_all_lines_dirty(
                 [w EXCEPT !.editor.cursor_y = @ + d,
                           !.editor.cursor_x = IF @ > ll THEN ll ELSE @])}

\* src/main.c:1376-1612: the key `key` is processed in the world w
process_keypress(w, key) ==
    CASE key.k = "click" -> MouseClick(w, key.n, key.m)
      [] key.k = "wheel_up" -> {MoveRows(w, -3)}
      [] key.k = "wheel_down" -> {MoveRows(w, 3)}
      [] key.k = "help" -> {editor_mark_all_lines_dirty([w EXCEPT !.show_help = 1 - @])}
      [] key.k = "shell_toggle" ->
            {editor_mark_all_lines_dirty([w EXCEPT !.shell_panel_open = 1 - @])}
      [] key.k = "shell_run" -> {w}
      [] key.k = "search" -> {editor_search(w, key.s)}
      [] key.k = "replace" ->
            Bind(editor_replace_all(w, key.s, key.t),
                 LAMBDA v : {editor_mark_all_lines_dirty(v)})
      [] key.k = "goto" -> editor_goto_line(w, key.s)
      [] key.k = "quit" -> {[w EXCEPT !.exited = TRUE]}
      [] key.k = "undo" -> {undo(w)}
      [] key.k = "redo" -> {redo(w)}
      [] key.k = "save" -> editor_save_file(w, key.s, key.ok)
      [] key.k = "open" -> editor_load_file(w, key.s, key.ok)
      [] key.k = "dup" -> editor_duplicate_line(w)
      [] key.k = "kill" -> editor_kill_line(w)
      [] key.k = "toggle_ln" -> {editor_toggle_line_numbers(w)}
      [] key.k = "top" -> {editor_goto_top(w)}
      [] key.k = "bottom" -> editor_goto_bottom(w)
      [] key.k = "home" ->
            {editor_mark_line_dirty([w EXCEPT !.editor.cursor_x = 0], w.editor.cursor_y)}
      [] key.k = "end" ->
            LET ln == StrLen(w.editor, Row(w.editor.cursor_y))
            IN  IF ln < 0 THEN {Crash(w)}
                ELSE {editor_mark_line_dirty([w EXCEPT !.editor.cursor_x = ln],
                                             w.editor.cursor_y)}
      [] key.k = "pgup" -> {MoveRows(w, -5)}
      [] key.k = "pgdn" -> {MoveRows(w, 5)}
      [] key.k = "tab" ->
            IF w.config.tab_four_spaces = 1
            THEN InsertN(save_state_undo(w), CH_SP, 4)
            ELSE editor_insert_char(save_state_undo(w), CH_TAB)
      [] key.k = "left" -> KeyLeft(w)
      [] key.k = "right" -> KeyRight(w)
      [] key.k = "up" -> KeyUpDown(w, -1)
      [] key.k = "down" -> KeyUpDown(w, 1)
      [] key.k = "backspace" -> editor_delete_char(save_state_undo(w))
      [] key.k = "delete" -> editor_delete_at_cursor(save_state_undo(w))
      [] key.k = "enter" -> editor_insert_newline(save_state_undo(w))
      [] key.k = "char" ->
            IF key.n >= 32 /\ key.n <= 126
            THEN editor_insert_char(save_state_undo(w), key.n)
            ELSE {w}
      [] OTHER -> {w}

(* ------------------------------------------------------------------ *)
(* Redraw                                                               *)
(* ------------------------------------------------------------------ *)
\* src/main.c:884-885
TextAreaRows(w) ==
    ScreenRows - (IF w.shell_panel_open = 1 THEN SHELL_PANEL_HEIGHT ELSE 0) - 1

\* src/main.c:166-169 (isalnum in the "C" locale)
is_word_char(c) ==
    \/ (c >= 48 /\ c <= 57)
    \/ (c >= 65 /\ c <= 90)
    \/ (c >= 97 /\ c <= 122)
    \/ c = 95

\* is_left_boundary with no test of the character before the token
is_left_boundary_any(line, start) == TRUE

\* src/main.c:171-178; line is the C string, line[start - 1] is its element start
is_left_boundary(line, start) ==
    start = 0 \/ ~is_word_char(line[start])

\* src/main.c:180-188; line[end] is the terminator when end = strlen(line)
is_right_boundary(line, end) ==
    end = Len(line) \/ ~is_word_char(line[end + 1])

\* j + n <= len && strncmp(&line[j], t, n) == 0
MatchAt(line, j, t) ==
    /\ j + Len(t) <= Len(line)
    /\ SubSeq(line, j + 1, j + Len(t)) = t

RECURSIVE TokenAt(_, _, _, _)
\* src/main.c:842-865: the index of the first entry of the table whose token
\* stands at j between two boundaries, 0 when there is none
TokenAt(line, j, tokens, i) ==
    IF i > Len(tokens) THEN 0
    ELSE IF /\ Len(tokens[i].token) > 0
            /\ MatchAt(line, j, tokens[i].token)
            /\ is_left_boundary(line, j)
            /\ is_right_boundary(line, j + Len(tokens[i].token))
    THEN i
    ELSE TokenAt(line, j, tokens, i + 1)

\* the search test with the boundary requirement of the tokens
SearchHit_at_boundary(w, line, j) ==
    /\ w.g_searchActive # 0
    /\ w.g_searchTerm # <<>>
    /\ MatchAt(line, j, w.g_searchTerm)
    /\ is_left_boundary(line, j)
    /\ is_right_boundary(line, j + Len(w.g_searchTerm))

\* src/main.c:819-823: the search term stands at j
SearchHit(w, line, j) ==
    /\ w.g_searchActive # 0
    /\ w.g_searchTerm # <<>>
    /\ MatchAt(line, j, w.g_searchTerm)

RECURSIVE ScanLine_unclipped(_, _, _, _, _)
\* the scan with highlighted spans written whole: the loops of lines 827 and
\* 857 without their col < cols test
ScanLine_unclipped(w, line, j, col, cols) ==
    IF j >= 0 /\ j < Len(line) /\ col < cols
    THEN LET term == w.g_searchTerm
             hit == SearchHit(w, line, j)
             i == IF ~hit /\ w.syntax_enabled # 0 /\ Len(w.token_lookup) > 0
                  THEN TokenAt(line, j, w.token_lookup, 1)
                  ELSE 0
             n == IF hit THEN Len(term)
                  ELSE IF i > 0 THEN Len(w.token_lookup[i].token)
                  ELSE 1
             span == [j |-> j, n |-> n, col |-> col, shown |-> n,
                      kind |-> IF hit THEN "search" ELSE IF i > 0 THEN "token" ELSE "plain",
                      attr |-> IF hit THEN SEARCH_COLOR_PAIR
                               ELSE IF i > 0 THEN w.token_lookup[i].color_pair
                               ELSE 0]
         IN  <<span>> \o ScanLine_unclipped(w, line, j + n, col + n, cols)
    ELSE <<>>

RECURSIVE ScanLine(_, _, _, _, _)
\* src/main.c:816-876: the iterations of the while loop of draw_line.  Each one
\* is a span: it starts at position j of the line, consumes n characters and
\* puts `shown` of them on the screen from column col on, with attribute attr.
ScanLine(w, line, j, col, cols) ==
    IF j >= 0 /\ j < Len(line) /\ col < cols
    THEN LET term == w.g_searchTerm
             hit == SearchHit(w, line, j)
             i == IF ~hit /\ w.syntax_enabled # 0 /\ Len(w.token_lookup) > 0
                  THEN TokenAt(line, j, w.token_lookup, 1)
                  ELSE 0
             n == IF hit THEN Len(term)
                  ELSE IF i > 0 THEN Len(w.token_lookup[i].token)
                  ELSE 1
             shown == IF col + n <= cols THEN n ELSE cols - col
             span == [j |-> j, n |-> n, col |-> col, shown |-> shown,
                      kind |-> IF hit THEN "search" ELSE IF i > 0 THEN "token" ELSE "plain",
                      attr |-> IF hit THEN SEARCH_COLOR_PAIR
                               ELSE IF i > 0 THEN w.token_lookup[i].color_pair
                               ELSE 0]
         IN  <<span>> \o ScanLine(w, line, j + n, col + shown, cols)
    ELSE <<>>

RECURSIVE SpanCells(_, _, _)
\* the characters mvwaddch puts on the row, each with its attribute
SpanCells(line, spans, i) ==
    IF i > Len(spans) THEN <<>>
    ELSE [k \in 1..spans[i].shown |-> <<line[spans[i].j + k], spans[i].attr>>]
         \o SpanCells(line, spans, i + 1)

\* the spans draw_line scans line line_idx into, on a screen of cols columns
LineSpans(w, line_idx, cols) ==
    ScanLine(w, CStr(w.editor, Row(line_idx)), w.editor.col_offset,
             IF w.show_line_numbers # 0 THEN LINE_NUMBER_WIDTH ELSE 0, cols)

\* a screen row after move(row, 0); clrtoeol()
BlankRow == [num |-> 0, cells |-> <<>>]

\* src/main.c:798-877: the row holds the line number (0: none) and, from
\* start_col on, the cells drawn
draw_line(w, row, line_idx, cols) ==
    LET line == CStr(w.editor, Row(line_idx))
        drawn == [num |-> IF w.show_line_numbers # 0 THEN line_idx + 1 ELSE 0,
                  cells |-> SpanCells(line, LineSpans(w, line_idx, cols), 1)]
    IN  IF row \in DOMAIN w.screen THEN [w EXCEPT !.screen[row] = drawn] ELSE w

\* move(i, 0); clrtoeol()
ClearRow(w, i) ==
    IF i \in DOMAIN w.screen THEN [w EXCEPT !.screen[i] = BlankRow] ELSE w

RECURSIVE RefreshRows(_, _)
\* src/main.c:889-906: the rows of the text area, top down; a dirty line inside
\* the buffer is drawn and its flag cleared, a row below the buffer is cleared
\* (the loop of lines 909-918 clears the same rows once more)
RefreshRows(w, i) ==
    IF i < TextAreaRows(w)
    THEN LET line_idx == w.editor.row_offset + i
         IN  IF line_idx >= 0 /\ line_idx < w.editor.num_lines
             THEN IF line_idx >= MAX_LINES THEN {Crash(w)}
                  ELSE IF w.line_dirty[line_idx] = 1
                  THEN IF StrLen(w.editor, Row(line_idx)) < 0 THEN {Crash(w)}
                       ELSE RefreshRows(
                                [draw_line(w, i, line_idx, ScreenCols)
                                    EXCEPT !.line_dirty[line_idx] = 0], i + 1)
                  ELSE RefreshRows(w, i + 1)
             ELSE RefreshRows(ClearRow(w, i), i + 1)
    ELSE {w}

\* src/main.c:880-960
editor_refresh_screen(w) == RefreshRows(w, 0)

(* ------------------------------------------------------------------ *)
(* The event loop: main(), src/main.c:1615-1639                         *)
(* ------------------------------------------------------------------ *)
\* what the keyboard, the mouse and the prompts supply
Chars == {CH_a, CH_SP}
ClickRows == {0, 2}
ClickCols == {0, 9, 12}
\* "", "0", "2", "99", "-1", "x" and "2147483648"
GotoStrings == {<<>>, <<48>>, <<50>>, <<57, 57>>, <<45, 49>>, <<120>>,
                <<50, 49, 52, 55, 52, 56, 51, 54, 52, 56>>}
SearchTerms == {<<>>, <<CH_a>>}
ReplacePairs == {<<(<<>>), (<<>>)>>, <<(<<CH_a>>), (<<>>)>>, <<(<<CH_a>>), (<<CH_a, CH_a>>)>>,
                 <<(<<CH_a, CH_a>>), (<<CH_SP>>)>>}
FileF == <<102>>
FileG == <<103>>
FileE == <<101>>
FileNames == {FileF, FileG, FileE}

\* the files under saves/ when the editor starts: "aaa\naa\n\n", " a" and an
\* empty file
InitDisk ==
    [p \in {SavesDir \o n : n \in FileNames} |->
        IF p = SavesDir \o FileF THEN <<CH_a, CH_a, CH_a, CH_NL, CH_a, CH_a, CH_NL, CH_NL>>
        ELSE IF p = SavesDir \o FileG THEN <<CH_SP, CH_a>>
        ELSE <<>>]

\* highlight.syntax as parsed when the editor starts (src/main.c:1618): one
\* definition, for files named *f, with the one rule "a" = (255, 0, 0)
InitSyntax ==
    <<[extensions |-> <<FileF>>,
       rules |-> <<[tokens |-> << <<CH_a>> >>, token_count |-> 1,
                    r |-> 255, g |-> 0, b |-> 0, color_pair |-> 0]>>]>>

\* the state when main() enters its loop: load_config (src/main.c:191-224) has
\* read the two settings, init_editor has run
Init ==
    /\ editor = init_editor
    /\ undo_stack = <<>>
    /\ redo_stack = <<>>
    /\ line_dirty = [i \in 0..(MAX_LINES - 1) |-> 1]
    /\ dirty = 0
    /\ config \in [tab_four_spaces : {0, 1}, auto_indent : {0, 1}]
    /\ show_line_numbers = 1
    /\ shell_panel_open = 0
    /\ show_help = 0
    /\ g_searchTerm = <<>>
    /\ g_searchActive = 0
    /\ current_file = <<>>
    /\ global_syntax_defs = InitSyntax
    /\ selected_syntax = 0
    /\ syntax_enabled = 0
    /\ token_lookup = <<>>
    /\ screen = [r \in 0..(ScreenRows - 1) |-> BlankRow]
    /\ terminal = InitTerminal
    /\ disk = InitDisk
    /\ crashed = FALSE
    /\ pc = "refresh"
    /\ keys = 0

Install(w) ==
    /\ editor' = w.editor
    /\ undo_stack' = w.undo_stack
    /\ redo_stack' = w.redo_stack
    /\ line_dirty' = w.line_dirty
    /\ dirty' = w.dirty
    /\ config' = w.config
    /\ show_line_numbers' = w.show_line_numbers
    /\ shell_panel_open' = w.shell_panel_open
    /\ show_help' = w.show_help
    /\ g_searchTerm' = w.g_searchTerm
    /\ g_searchActive' = w.g_searchActive
    /\ current_file' = w.current_file
    /\ global_syntax_defs' = w.global_syntax_defs
    /\ selected_syntax' = w.selected_syntax
    /\ syntax_enabled' = w.syntax_enabled
    /\ token_lookup' = w.token_lookup
    /\ screen' = w.screen
    /\ terminal' = w.terminal
    /\ disk' = w.disk
    /\ crashed' = w.crashed

\* src/main.c:1632
Refresh ==
    /\ pc = "refresh"
    /\ ~crashed
    /\ \E w2 \in editor_refresh_screen(World) :
          /\ Install(w2)
          /\ pc' = "key"
          /\ keys' = keys

\* src/main.c:1633: one call of process_keypress, in a run of at most max keys
PressN(key, max) ==
    /\ pc = "key"
    /\ keys < max
    /\ \E w2 \in process_keypress(World, key) :
          /\ Install(w2)
          /\ pc' = IF w2.exited THEN "exit" ELSE "refresh"
          /\ keys' = keys + 1

Press(key) == PressN(key, MaxKeys)

KeyChar == \E ch \in Chars : Press(Key("char", ch, 0, <<>>, <<>>, TRUE))
KeyTab == Press(Plain("tab"))
KeyBackspace == Press(Plain("backspace"))
KeyDelete == Press(Plain("delete"))
KeyEnter == Press(Plain("enter"))
KeyArrow == \E k \in {"left", "right", "up", "down"} : Press(Plain(k))
KeyHomeEnd == \E k \in {"home", "end"} : Press(Plain(k))
KeyPage == \E k \in {"pgup", "pgdn"} : Press(Plain(k))
KeyMouse ==
    \/ \E y \in ClickRows, x \in ClickCols : Press(Key("click", y, x, <<>>, <<>>, TRUE))
    \/ \E k \in {"wheel_up", "wheel_down"} : Press(Plain(k))
KeyGoto ==
    \/ \E str \in GotoStrings : Press(Key("goto", 0, 0, str, <<>>, TRUE))
    \/ \E k \in {"top", "bottom"} : Press(Plain(k))
KeyKill == Press(Plain("kill"))
KeyDup == Press(Plain("dup"))
KeyReplace == \E pr \in ReplacePairs : Press(Key("replace", 0, 0, pr[1], pr[2], TRUE))
KeyUndo == Press(Plain("undo"))
KeyRedo == Press(Plain("redo"))
KeyOpen ==
    \E name \in FileNames \cup {<<>>}, ok \in BOOLEAN :
        Press(Key("open", 0, 0, name, <<>>, ok))
KeySave ==
    \E name \in {<<>>, FileF}, ok \in BOOLEAN : Press(Key("save", 0, 0, name, <<>>, ok))
KeySearch == \E term \in SearchTerms : Press(Key("search", 0, 0, term, <<>>, TRUE))
KeyPanel ==
    \E k \in {"help", "shell_toggle", "shell_run", "toggle_ln"} : Press(Plain(k))
KeyQuit == Press(Plain("quit"))

Next ==
    \/ Refresh
    \/ KeyChar \/ KeyTab \/ KeyBackspace \/ KeyDelete \/ KeyEnter
    \/ KeyArrow \/ KeyHomeEnd \/ KeyPage \/ KeyMouse \/ KeyGoto
    \/ KeyKill \/ KeyDup \/ KeyReplace \/ KeyUndo \/ KeyRedo
    \/ KeyOpen \/ KeySave \/ KeySearch \/ KeyPanel \/ KeyQuit

Spec == Init /\ [][Next]_vars

\* Runs of insert_char, Backspace, Delete and Enter alone, from the initial buffer.
EditChar == \E ch \in Chars : PressN(Key("char", ch, 0, <<>>, <<>>, TRUE), MaxEditKeys)
EditBackspace == PressN(Plain("backspace"), MaxEditKeys)
EditDelete == PressN(Plain("delete"), MaxEditKeys)
EditEnter == PressN(Plain("enter"), MaxEditKeys)

NextEdit == Refresh \/ EditChar \/ EditBackspace \/ EditDelete \/ EditEnter

SpecEdit == Init /\ [][NextEdit]_vars

\* Runs of Ctrl+O, Home/End, PageUp/PageDown and printable characters.
NavOpen == \E name \in FileNames : PressN(Key("open", 0, 0, name, <<>>, TRUE), MaxNavKeys)
NavHomeEnd == \E k \in {"home", "end"} : PressN(Plain(k), MaxNavKeys)
NavPage == \E k \in {"pgup", "pgdn"} : PressN(Plain(k), MaxNavKeys)
NavChar == PressN(Key("char", CH_a, 0, <<>>, <<>>, TRUE), MaxNavKeys)

NextNav == Refresh \/ NavOpen \/ NavHomeEnd \/ NavPage \/ NavChar

SpecNav == Init /\ [][NextNav]_vars

\* Runs of typing, the arrow keys, Home/End and Ctrl+O.
TypeChar == \E ch \in Chars : PressN(Key("char", ch, 0, <<>>, <<>>, TRUE), MaxTypeKeys)
TypeEnter == PressN(Plain("enter"), MaxTypeKeys)
TypeBackspace == PressN(Plain("backspace"), MaxTypeKeys)
TypeDelete == PressN(Plain("delete"), MaxTypeKeys)
TypeArrow == \E k \in {"left", "right", "up", "down"} : PressN(Plain(k), MaxTypeKeys)
TypeHomeEnd == \E k \in {"home", "end"} : PressN(Plain(k), MaxTypeKeys)
TypeOpen == \E name \in {FileF, FileG} : PressN(Key("open", 0, 0, name, <<>>, TRUE), MaxTypeKeys)

NextType ==
    \/ Refresh \/ TypeChar \/ TypeEnter \/ TypeBackspace \/ TypeDelete
    \/ TypeArrow \/ TypeHomeEnd \/ TypeOpen

SpecType == Init /\ [][NextType]_vars

\* Runs of the keys that add and remove lines, with the cursor moved between
\* lines and the changes undone and redone.
LineChar == PressN(Key("char", CH_a, 0, <<>>, <<>>, TRUE), MaxLineKeys)
LineEnter == PressN(Plain("enter"), MaxLineKeys)
LineMerge == \E k \in {"backspace", "delete"} : PressN(Plain(k), MaxLineKeys)
LineKill == PressN(Plain("kill"), MaxLineKeys)
LineDup == PressN(Plain("dup"), MaxLineKeys)
LineUpDown == \E k \in {"up", "down"} : PressN(Plain(k), MaxLineKeys)
LineUndo == PressN(Plain("undo"), MaxLineKeys)
LineRedo == PressN(Plain("redo"), MaxLineKeys)
LineOpen ==
    \E name \in {FileF, FileG} : PressN(Key("open", 0, 0, name, <<>>, TRUE), MaxLineKeys)

NextLine ==
    \/ Refresh \/ LineChar \/ LineEnter \/ LineMerge \/ LineKill \/ LineDup
    \/ LineUpDown \/ LineUndo \/ LineRedo \/ LineOpen

SpecLine == Init /\ [][NextLine]_vars

\* Runs of typing, Ctrl+R, Ctrl+O, Ctrl+Z and Ctrl+Y: the keys that change the
\* buffer without a snapshot, among keys that take and use snapshots.
MaxHistKeys == 4

HistChar == PressN(Key("char", CH_a, 0, <<>>, <<>>, TRUE), MaxHistKeys)
HistReplace ==
    \E pr \in ReplacePairs : PressN(Key("replace", 0, 0, pr[1], pr[2], TRUE), MaxHistKeys)
HistOpen ==
    \E name \in FileNames : PressN(Key("open", 0, 0, name, <<>>, TRUE), MaxHistKeys)
HistUndo == PressN(Plain("undo"), MaxHistKeys)
HistRedo == PressN(Plain("redo"), MaxHistKeys)

NextHist == Refresh \/ HistChar \/ HistReplace \/ HistOpen \/ HistUndo \/ HistRedo

SpecHist == Init /\ [][NextHist]_vars

\* Runs of Ctrl+O, Ctrl+F and Ctrl+T over files and syntax definitions that
\* exercise draw_line.
DrawChars == {CH_a, CH_b, CH_USCORE, CH_SP}

\* every string of at most MAX_COLS - 1 of these characters
DrawLines == UNION {[1..n -> DrawChars] : n \in 0..(MAX_COLS - 1)}

DrawTerms == {<<>>, <<CH_a>>, <<CH_a, CH_b>>}

\* highlight.syntax as parsed: one definition for files named *f, whose rules are
\* "a"; or "ab" "a"; or "b" and "ab"; or "a " and "a"
DrawRule(toks) ==
    [tokens |-> toks, token_count |-> IF toks = <<>> THEN 0 ELSE 2 * Len(toks) - 1,
     r |-> 255, g |-> 0, b |-> 0, color_pair |-> 0]
DrawSyntaxes ==
    {<<[extensions |-> <<FileF>>, rules |-> rs]>> :
        rs \in {<<DrawRule(<< <<CH_a>> >>)>>,
                 <<DrawRule(<< <<CH_a, CH_b>>, <<CH_a>> >>)>>,
                 <<DrawRule(<< <<CH_b>> >>), DrawRule(<< <<CH_a, CH_b>> >>)>>,
                 <<DrawRule(<< <<CH_a, CH_SP>> >>), DrawRule(<< <<CH_a>> >>)>>}}

\* saves/f holds a first line and the line "ab"
DrawDisk(first) ==
    [p \in {SavesDir \o FileF} |-> first \o <<CH_NL, CH_a, CH_b>>]

InitDraw ==
    /\ editor = init_editor
    /\ undo_stack = <<>>
    /\ redo_stack = <<>>
    /\ line_dirty = [i \in 0..(MAX_LINES - 1) |-> 1]
    /\ dirty = 0
    /\ config = [tab_four_spaces |-> 0, auto_indent |-> 0]
    /\ show_line_numbers = 1
    /\ shell_panel_open = 0
    /\ show_help = 0
    /\ g_searchTerm = <<>>
    /\ g_searchActive = 0
    /\ current_file = <<>>
    /\ global_syntax_defs \in DrawSyntaxes
    /\ selected_syntax = 0
    /\ syntax_enabled = 0
    /\ token_lookup = <<>>
    /\ screen = [r \in 0..(ScreenRows - 1) |-> BlankRow]
    /\ terminal = InitTerminal
    /\ \E first \in DrawLines : disk = DrawDisk(first)
    /\ crashed = FALSE
    /\ pc = "refresh"
    /\ keys = 0

DrawOpen == PressN(Key("open", 0, 0, FileF, <<>>, TRUE), MaxDrawKeys)
DrawSearch == \E term \in DrawTerms : PressN(Key("search", 0, 0, term, <<>>, TRUE), MaxDrawKeys)
DrawToggle == PressN(Plain("toggle_ln"), MaxDrawKeys)

NextDraw == Refresh \/ DrawOpen \/ DrawSearch \/ DrawToggle

SpecDraw == InitDraw /\ [][NextDraw]_vars

\* draw_line on its own.  The program never changes editor.col_offset from 0
\* (update_viewport, the only code that would, is not called), so the inputs of
\* draw_line are drawn here instead of reached: a first line, a column offset, a
\* gutter, a search term and a token table; ViewDraw then draws line 0 on row 0
\* of a screen of any of ViewWidths columns.
ViewOffsets == 0..(MAX_COLS - 1)

ViewWidths == {1, 2, LINE_NUMBER_WIDTH + 1, ScreenCols}

InitView ==
    /\ \E line \in DrawLines, off \in ViewOffsets :
          editor = [PokeStr(init_editor, Row(0), line) EXCEPT !.col_offset = off]
    /\ undo_stack = <<>>
    /\ redo_stack = <<>>
    /\ line_dirty = [i \in 0..(MAX_LINES - 1) |-> 1]
    /\ dirty = 0
    /\ config = [tab_four_spaces |-> 0, auto_indent |-> 0]
    /\ show_line_numbers \in {0, 1}
    /\ shell_panel_open = 0
    /\ show_help = 0
    /\ g_searchTerm \in DrawTerms
    /\ g_searchActive = (IF g_searchTerm = <<>> THEN 0 ELSE 1)
    /\ current_file = FileF
    /\ \E defs \in DrawSyntaxes :
          LET d == sh_init_syntax_colors(defs[1])
          IN  /\ global_syntax_defs = <<d>>
              /\ token_lookup \in build_token_lookup(d)
              /\ terminal = RegisterColors(InitTerminal, d.rules, 1)
    /\ selected_syntax = 1
    /\ syntax_enabled = 1
    /\ screen = [r \in 0..(ScreenRows - 1) |-> BlankRow]
    /\ disk = DrawDisk(<<>>)
    /\ crashed = FALSE
    /\ pc = "draw"
    /\ keys = 0

\* src/main.c:798-877: one call draw_line(stdscr, 0, 0, cols)
ViewDraw ==
    /\ pc = "draw"
    /\ \E cols \in ViewWidths : Install(draw_line(World, 0, 0, cols))
    /\ pc' = "drawn"
    /\ keys' = keys

NextView == ViewDraw

SpecView == InitView /\ [][NextView]_vars

\* highlight.syntax as parsed, with three languages: files named *f with the
\* rule "a", files named *g with the rule "b", files named *e with no rule
LoadSyntax ==
    <<[extensions |-> <<FileF>>, rules |-> <<DrawRule(<< <<CH_a>> >>)>>],
      [extensions |-> <<FileG>>, rules |-> <<DrawRule(<< <<CH_b>> >>)>>],
      [extensions |-> <<FileE>>, rules |-> <<>>]>>

\* a further file, of no language
FileH == <<104>>

InitLoad ==
    /\ editor = init_editor
    /\ undo_stack = <<>>
    /\ redo_stack = <<>>
    /\ line_dirty = [i \in 0..(MAX_LINES - 1) |-> 1]
    /\ dirty = 0
    /\ config = [tab_four_spaces |-> 0, auto_indent |-> 0]
    /\ show_line_numbers = 1
    /\ shell_panel_open = 0
    /\ show_help = 0
    /\ g_searchTerm = <<>>
    /\ g_searchActive = 0
    /\ current_file = <<>>
    /\ global_syntax_defs = LoadSyntax
    /\ selected_syntax = 0
    /\ syntax_enabled = 0
    /\ token_lookup = <<>>
    /\ screen = [r \in 0..(ScreenRows - 1) |-> BlankRow]
    /\ \E can \in BOOLEAN : terminal = [InitTerminal EXCEPT !.can_change_color = can]
    /\ disk = [p \in {SavesDir \o n : n \in FileNames \cup {FileH}} |-> <<CH_a, CH_SP, CH_b>>]
    /\ crashed = FALSE
    /\ pc = "refresh"
    /\ keys = 0

\* Runs of Ctrl+O over files of several languages, with some typing in between.
LoadOpen ==
    \E name \in FileNames \cup {FileH}, ok \in BOOLEAN :
        PressN(Key("open", 0, 0, name, <<>>, ok), MaxLoadKeys)
LoadChar == PressN(Key("char", CH_a, 0, <<>>, <<>>, TRUE), MaxLoadKeys)

NextLoad == Refresh \/ LoadOpen \/ LoadChar

SpecLoad == InitLoad /\ [][NextLoad]_vars

\* "highlight.syntax", the file main() reads the definitions from (src/main.c:1618)
HighlightSyntax == <<104, 105, 103, 104, 108, 105, 103, 104, 116, 46, 115, 121, 110, 116, 97, 120>>

\* the most rules a block of the sources below holds, and the keys of a run
MaxRules == 3
MaxParseKeys == 1

\* the lines syntax sources are made of: the headers SYNTAX "f" and SYNTAX "g",
\* the braces, a line that is none of these
TextHeaderF == <<83, 89, 78, 84, 65, 88, 32, 34, 102, 34>>
TextHeaderG == <<83, 89, 78, 84, 65, 88, 32, 34, 103, 34>>
TextOpen == <<CH_LBRACE>>
TextClose == <<CH_RBRACE>>
TextOther == <<120>>

\* the rules: "a" = (255,0,0); a rule with no '='; one with no '=' for the token
\* "="; one with no parenthesis; one with two integers
RuleKinds == {"one", "noeq", "noeq_token", "noparen", "short"}
RuleText(kind) ==
    CASE kind = "one" -> <<<<32, 32, 34, 97, 34, 32, 61, 32, 40, 50, 53, 53, 44, 48, 44, 48, 41, 59>>>>
      [] kind = "noeq" -> <<<<34, 99, 34, 32, 40, 49, 44, 50, 44, 51, 41, 59>>>>
      [] kind = "noeq_token" -> <<<<34, 61, 34, 32, 40, 49, 44, 50, 44, 51, 41, 59>>>>
      [] kind = "noparen" -> <<<<34, 99, 34, 32, 61, 32, 49, 44, 50, 44, 51, 59>>>>
      [] kind = "short" -> <<<<34, 99, 34, 32, 61, 32, 40, 49, 44, 50, 41, 59>>>>
\* a rule that stops before its semicolon: "c" = (1,2,
PartialText == <<<<34, 99, 34, 32, 61, 32, 40, 49, 44, 50, 44>>>>
\* the definition for g, with one rule on two lines:
\*   "b" "c"
\*       = ( -1 , 3000000 , 300 );
OtherBlock ==
    <<TextHeaderG, TextOpen,
      <<34, 98, 34, 32, 34, 99, 34>>,
      <<32, 32, 32, 32, 61, 32, 40, 32, 45, 49, 32, 44, 32, 51, 48, 48, 48, 48, 48, 48, 32, 44, 32, 51, 48, 48, 32, 41, 59>>,
      TextClose>>

\* the definition for f: its header followed by the brace, by the next header or
\* the end of the source ("none"), or by another line before the brace
\* ("other"); the rules of its block; whether a partial rule ends the block;
\* whether the block is closed by a brace or by the end of the source
Bodies(n) == UNION {[1..k -> RuleKinds] : k \in 0..n}
BlockShapes ==
    {d \in [open : {"brace"}, body : Bodies(MaxRules), partial : BOOLEAN, closed : BOOLEAN] :
        d.partial \/ d.closed}
        \cup [open : {"none", "other"}, body : {<<"one">>}, partial : {FALSE}, closed : {TRUE}]

\* a source: the definition for f and, before it, after it or not at all, the
\* definition for g; the longer blocks stand alone
SourceShapes ==
    {s \in [first : BlockShapes, other : {"absent", "before", "after"}] :
        /\ s.first.closed \/ s.other # "after"
        /\ Len(s.first.body) <= 1 \/ s.other = "absent"}

RECURSIVE BodyLines(_, _)
BodyLines(body, i) ==
    IF i > Len(body) THEN <<>> ELSE RuleText(body[i]) \o BodyLines(body, i + 1)

BlockLines(d) ==
    IF d.open = "none" THEN <<TextHeaderF>>
    ELSE <<TextHeaderF>> \o (IF d.open = "other" THEN <<TextOther>> ELSE <<>>)
             \o <<TextOpen>> \o BodyLines(d.body, 1)
             \o (IF d.partial THEN PartialText ELSE <<>>)
             \o (IF d.closed THEN <<TextClose>> ELSE <<>>)

RECURSIVE JoinLines(_, _)
\* the bytes of a file of these lines
JoinLines(lines, i) ==
    IF i > Len(lines) THEN <<>> ELSE lines[i] \o <<CH_NL>> \o JoinLines(lines, i + 1)

SourceBytes(s) ==
    JoinLines((IF s.other = "before" THEN OtherBlock ELSE <<>>)
                  \o BlockLines(s.first)
                  \o (IF s.other = "after" THEN OtherBlock ELSE <<>>), 1)

\* the state at the start of main(): nothing is parsed yet
InitParse ==
    /\ editor = init_editor
    /\ undo_stack = <<>>
    /\ redo_stack = <<>>
    /\ line_dirty = [i \in 0..(MAX_LINES - 1) |-> 1]
    /\ dirty = 0
    /\ config = [tab_four_spaces |-> 0, auto_indent |-> 0]
    /\ show_line_numbers = 1
    /\ shell_panel_open = 0
    /\ show_help = 0
    /\ g_searchTerm = <<>>
    /\ g_searchActive = 0
    /\ current_file = <<>>
    /\ global_syntax_defs = <<>>
    /\ selected_syntax = 0
    /\ syntax_enabled = 0
    /\ token_lookup = <<>>
    /\ screen = [r \in 0..(ScreenRows - 1) |-> BlankRow]
    /\ terminal = InitTerminal
    /\ \E s \in SourceShapes :
          disk = [p \in {HighlightSyntax, SavesDir \o FileF, SavesDir \o FileG} |->
                     IF p = HighlightSyntax THEN SourceBytes(s) ELSE <<CH_a, CH_SP, CH_b>>]
    /\ crashed = FALSE
    /\ pc = "start"
    /\ keys = 0

\* src/main.c:1617-1628: main() up to its loop
ParseStartup ==
    /\ pc = "start"
    /\ global_syntax_defs' \in sh_load_syntax_definitions(disk, HighlightSyntax)
    /\ pc' = "refresh"
    /\ UNCHANGED <<editor, undo_stack, redo_stack, line_dirty, dirty, config,
                   show_line_numbers, shell_panel_open, show_help, g_searchTerm,
                   g_searchActive, current_file, selected_syntax, syntax_enabled,
                   token_lookup, screen, terminal, disk, crashed, keys>>

ParseOpen ==
    \E name \in {FileF, FileG} : PressN(Key("open", 0, 0, name, <<>>, TRUE), MaxParseKeys)

NextParse == ParseStartup \/ Refresh \/ ParseOpen

SpecParse == InitParse /\ [][NextParse]_vars

(* ------------------------------------------------------------------ *)
(* Properties                                                           *)
(* ------------------------------------------------------------------ *)
\* 0 <= cursor_y < num_lines and 0 <= cursor_x <= strlen(text[cursor_y])
CursorInRange(e) ==
    /\ e.cursor_y >= 0
    /\ e.cursor_y < e.num_lines
    /\ e.cursor_x >= 0
    /\ e.cursor_x <= StrLen(e, Row(e.cursor_y))

\* the lines of the buffer, each as the C string of its row
Lines(e) ==
    [y \in 1..(IF e.num_lines <= MAX_LINES THEN e.num_lines ELSE MAX_LINES) |->
        CStr(e, Row(y - 1))]

\* the line contents, the line count or the cursor differ between e and f
Changed(e, f) ==
    \/ Lines(e) # Lines(f)
    \/ e.num_lines # f.num_lines
    \/ e.cursor_x # f.cursor_x
    \/ e.cursor_y # f.cursor_y

\* what one mutation of the buffer can leave when it starts in the world w
MutationOutcomes(w) ==
    UNION {editor_insert_char(w, ch) : ch \in Chars}
    \cup InsertN(w, CH_SP, 4)
    \cup editor_delete_char(w)
    \cup editor_delete_at_cursor(w)
    \cup editor_insert_newline(w)
    \cup editor_kill_line(w)
    \cup editor_duplicate_line(w)
    \cup UNION {editor_replace_all(w, pr[1], pr[2]) : pr \in ReplacePairs}

\* the keys the handlers of which are to take a snapshot
DestructiveKeys ==
    {Key("char", ch, 0, <<>>, <<>>, TRUE) : ch \in Chars}
    \cup {Plain(k) : k \in {"tab", "backspace", "delete", "enter", "kill", "dup"}}

\* C1: after any sequence of handled keys the cursor is inside the buffer:
\* 0 <= cursor_y < num_lines and 0 <= cursor_x <= length of line cursor_y.
C1_CursorInRange == ~crashed => CursorInRange(editor)

\* C2: from the initial buffer, after any sequence of insert_char, Backspace,
\* Delete and Enter alone, the cursor is inside the buffer (and the run has not
\* left defined behaviour).
C2_EditCursorInRange == ~crashed /\ CursorInRange(editor)

\* C2 witness: Enter has split a line and Backspace has taken characters off the
\* new line again, in a run that used all its keys.
C2_Witness ==
    /\ keys = MaxEditKeys
    /\ editor.num_lines = 2
    /\ editor.cursor_y = 1
    /\ editor.cursor_x = 1
    /\ StrLen(editor, Row(1)) = 1
    /\ StrLen(editor, Row(0)) = 2

\* C3: every line of the buffer is at most MAX_COLS - 1 bytes long; a merge of two
\* lines that together are longer is cut to that length.
C3_LinesWithinMax ==
    ~crashed =>
        \A y \in 0..(MAX_LINES - 1) :
            y < editor.num_lines =>
                /\ StrLen(editor, Row(y)) >= 0
                /\ StrLen(editor, Row(y)) <= MAX_COLS - 1

\* C4: in every reachable state 1 <= num_lines <= MAX_LINES.
C4_LineCountInRange ==
    ~crashed => (editor.num_lines >= 1 /\ editor.num_lines <= MAX_LINES)

\* C5 as claimed: from every reachable state in which a key is awaited, whatever
\* the depth of the undo stack, snapshot(); one mutation; undo() restores the
\* buffer, the cursor and the viewport.  (The states in which a redraw is due
\* differ from these in line_dirty alone.)
C5_UndoRestoresAlways ==
    (pc = "key" /\ ~crashed) =>
        \A w1 \in MutationOutcomes(save_state_undo(World)) :
            ~w1.crashed => undo(w1).editor = editor

\* C5 as amended: from every reachable state in which a key is awaited and the
\* undo stack holds fewer than UNDO_STACK_SIZE entries, snapshot(); one mutation
\* that returns; undo() restores the buffer, the cursor and the viewport.
C5_UndoRestoresBelowCapacity ==
    (pc = "key" /\ ~crashed /\ Len(undo_stack) < UNDO_STACK_SIZE) =>
        \A w1 \in MutationOutcomes(save_state_undo(World)) :
            ~w1.crashed => undo(w1).editor = editor

\* C5 witness: the undo stack holds an entry and has room, a mutation changes
\* the buffer and undo() brings it back.
C5_Witness ==
    /\ pc = "key"
    /\ ~crashed
    /\ Len(undo_stack) > 0
    /\ Len(undo_stack) < UNDO_STACK_SIZE
    /\ \E w1 \in MutationOutcomes(save_state_undo(World)) :
          /\ ~w1.crashed
          /\ Changed(w1.editor, editor)
          /\ undo(w1).editor = editor

\* C6: when a destructive key changes the line contents, the line count or the
\* cursor and the undo stack is below capacity, the top of the undo stack
\* afterwards is the state before the key.
C6_SnapshotBeforeMutation ==
    (pc = "key" /\ keys < MaxKeys /\ ~crashed /\ Len(undo_stack) < UNDO_STACK_SIZE) =>
        \A key \in DestructiveKeys :
            \A w2 \in process_keypress(World, key) :
                (~w2.crashed /\ Changed(w2.editor, editor)) =>
                    /\ Len(w2.undo_stack) > 0
                    /\ w2.undo_stack[Len(w2.undo_stack)] = editor

\* C7: from every reachable state with a non-empty undo stack, undo() then redo()
\* restores the buffer, the cursor and the viewport.
C7_RedoAfterUndo ==
    (~crashed /\ Len(undo_stack) > 0) => redo(undo(World)).editor = editor

\* C7 witness: undo() changes the buffer and redo() brings it back.
C7_Witness ==
    /\ ~crashed
    /\ Len(undo_stack) > 0
    /\ Changed(undo(World).editor, editor)
    /\ redo(undo(World)).editor = editor

\* C8: snapshot() always empties the redo stack, so after undo() and one
\* snapshot-preceded mutation redo() changes nothing; undo() never takes an entry
\* off the redo stack.
C8_OnlySnapshotClearsRedo ==
    ~crashed =>
        /\ save_state_undo(World).redo_stack = <<>>
        /\ pc = "key" =>
              \A w1 \in MutationOutcomes(save_state_undo(undo(World))) :
                  ~w1.crashed => redo(w1) = w1
        /\ Len(undo(World).redo_stack) >= Len(redo_stack)
        /\ SubSeq(undo(World).redo_stack, 1, Len(redo_stack)) = redo_stack

\* C8 witness: both stacks hold an entry, so undo() acts on a redo stack that is
\* not empty and a snapshot has a redo history to clear.
C8_Witness ==
    /\ ~crashed
    /\ pc = "key"
    /\ Len(undo_stack) > 0
    /\ Len(redo_stack) > 0
    /\ Len(undo(World).redo_stack) = Len(redo_stack) + 1

\* C9: both stacks hold at most UNDO_STACK_SIZE entries, and a snapshot() taken
\* with UNDO_STACK_SIZE entries on the undo stack leaves every entry as it is.
C9_StacksBounded ==
    /\ Len(undo_stack) <= UNDO_STACK_SIZE
    /\ Len(redo_stack) <= UNDO_STACK_SIZE
    /\ Len(undo_stack) = UNDO_STACK_SIZE =>
          save_state_undo(World).undo_stack = undo_stack

\* C9 witness: more snapshots were taken than the stack holds; the stack is full
\* and its top is not the state before the last key.
C9_Witness ==
    /\ ~crashed
    /\ keys > UNDO_STACK_SIZE
    /\ Len(undo_stack) = UNDO_STACK_SIZE
    /\ Len(redo_stack) = 0
    /\ dirty = 1

\* C10: at every redraw of a text area that has a row and a column the cursor is
\* inside the window: row_offset <= cursor_y < row_offset + visible rows and
\* col_offset <= cursor_x < col_offset + usable columns.
C10_CursorVisibleAtRedraw ==
    LET usable == ScreenCols - (IF show_line_numbers = 1 THEN LINE_NUMBER_WIDTH ELSE 0)
    IN  (pc = "refresh" /\ ~crashed /\ TextAreaRows(World) > 0 /\ usable > 0) =>
            /\ editor.row_offset <= editor.cursor_y
            /\ editor.cursor_y < editor.row_offset + TextAreaRows(World)
            /\ editor.col_offset <= editor.cursor_x
            /\ editor.cursor_x < editor.col_offset + usable

\* C11: when a redraw pass ends (a text area of at least one row), no line of the
\* buffer is flagged dirty, whether the line is inside the viewport or not.
C11_RedrawClearsAllDirty ==
    (pc = "key" /\ ~crashed /\ TextAreaRows(World) > 0) =>
        \A i \in 0..(MAX_LINES - 1) : i < editor.num_lines => line_dirty[i] = 0

\* the lines of the buffer that have a row of their own in editor.text
BufferLines(e) == {y \in 0..(MAX_LINES - 1) : y < e.num_lines}

\* C12: in every line drawn, a span highlighted as a token starts where a token
\* of the table stands literally, the character before it (if any) and the
\* character after it (if any) are not alphanumeric or '_', and the span has
\* that token's length and colour pair.
C12_TokenAtBoundaryOnly ==
    ~crashed =>
        \A y \in BufferLines(editor) :
            LET line == CStr(editor, Row(y))
                spans == LineSpans(World, y, ScreenCols)
            IN  \A k \in 1..Len(spans) :
                    spans[k].kind = "token" =>
                        \E i \in 1..Len(token_lookup) :
                            /\ token_lookup[i].color_pair = spans[k].attr
                            /\ Len(token_lookup[i].token) = spans[k].n
                            /\ MatchAt(line, spans[k].j, token_lookup[i].token)
                            /\ spans[k].j > 0 => ~is_word_char(line[spans[k].j])
                            /\ spans[k].j + spans[k].n < Len(line) =>
                                   ~is_word_char(line[spans[k].j + spans[k].n + 1])

\* C12 witness: after a redraw, row 0 shows the line " a" with the token "a"
\* highlighted after a space, and row 1 shows the line "ab", in which the token
\* "a" stands but is not highlighted.
C12_Witness ==
    /\ pc = "key"
    /\ ~crashed
    /\ show_line_numbers = 0
    /\ editor.num_lines = 2
    /\ \E i \in 1..Len(token_lookup) : token_lookup[i].token = <<CH_a>>
    /\ screen[0].cells = <<<<CH_SP, 0>>, <<CH_a, 1>>>>
    /\ screen[1].cells = <<<<CH_a, 0>>, <<CH_b, 0>>>>

MergedUp(e, y) ==
    LET old == Lines(e)
    IN  [i \in 1..(Len(old) - 1) |->
            IF i < y THEN old[i]
            ELSE IF i = y THEN old[y] \o old[y + 1]
            ELSE old[i + 1]]

\* C14: Backspace at column 0 of a line y > 0, the two lines together within the
\* maximum length, leaves the buffer with line y appended to line y - 1 and
\* removed, one line fewer, and the cursor at (y - 1, old length of line y - 1);
\* Backspace at (0, 0) leaves lines and cursor as they are.
C14_BackspaceMergesUp ==
    (pc = "key" /\ ~crashed /\ editor.cursor_x = 0 /\ editor.cursor_y >= 0
        /\ editor.cursor_y < editor.num_lines /\ editor.num_lines <= MAX_LINES) =>
        \A w2 \in process_keypress(World, Plain("backspace")) :
            LET y == editor.cursor_y
                old == Lines(editor)
            IN  IF y = 0
                THEN /\ ~w2.crashed
                     /\ Lines(w2.editor) = old
                     /\ w2.editor.num_lines = editor.num_lines
                     /\ w2.editor.cursor_x = 0
                     /\ w2.editor.cursor_y = 0
                ELSE Len(old[y]) + Len(old[y + 1]) <= MAX_COLS - 1 =>
                     /\ ~w2.crashed
                     /\ Lines(w2.editor) = MergedUp(editor, y)
                     /\ w2.editor.num_lines = editor.num_lines - 1
                     /\ w2.editor.cursor_y = y - 1
                     /\ w2.editor.cursor_x = Len(old[y])

\* C14 witness: the cursor is at column 0 of the last of three lines, the line
\* before it is not empty, and Backspace merges the two into a line of the
\* maximum length.
C14_Witness ==
    /\ pc = "key"
    /\ ~crashed
    /\ editor.num_lines = 3
    /\ editor.cursor_x = 0
    /\ editor.cursor_y = 2
    /\ Len(Lines(editor)[2]) > 0
    /\ Len(Lines(editor)[3]) > 0
    /\ Len(Lines(editor)[2]) + Len(Lines(editor)[3]) = MAX_COLS - 1
    /\ \E w2 \in process_keypress(World, Plain("backspace")) :
          /\ ~w2.crashed
          /\ Lines(w2.editor) = MergedUp(editor, 2)

Clamp(n, lo, hi) == IF n < lo THEN lo ELSE IF n > hi THEN hi ELSE n

\* the integer a prompt answer spells, capped at the largest int either way
\* (text that is no number spells 0)
Spelled(s) ==
    LET p == AtoiParse(s)
        mag == IF p.m.big \/ p.m.hi >= HalfInt \div 2 THEN IntMax
               ELSE p.m.hi * HalfInt + p.m.lo
    IN  IF p.neg THEN 0 - mag ELSE mag

\* C15: goto_line with an answer spelling the integer n (text that is no number
\* counts as 0) puts the cursor at line clamp(n, 1, num_lines) - 1, column 0, and
\* the editor keeps running; with an empty answer the cursor stays.
C15_GotoLineClamps ==
    (pc = "key" /\ ~crashed /\ editor.num_lines >= 1) =>
        \A str \in GotoStrings :
            \A w2 \in process_keypress(World, Key("goto", 0, 0, str, <<>>, TRUE)) :
                /\ ~w2.crashed
                /\ ~w2.exited
                /\ IF str = <<>>
                   THEN /\ w2.editor.cursor_y = editor.cursor_y
                        /\ w2.editor.cursor_x = editor.cursor_x
                   ELSE /\ w2.editor.cursor_y = Clamp(Spelled(str), 1, editor.num_lines) - 1
                        /\ w2.editor.cursor_x = 0


RECURSIVE Replaced(_, _, _)
\* s with each non-overlapping occurrence of old, found left to right, replaced by
\* new; the text a replacement puts in is not looked at again (old is not empty)
Replaced(s, old, new) ==
    IF s = <<>> THEN <<>>
    ELSE IF HasAt(s, 1, old) THEN new \o Replaced(SubSeq(s, Len(old) + 1, Len(s)), old, new)
    ELSE <<s[1]>> \o Replaced(Tail(s), old, new)

\* C16: replace-all of a non-empty old string by a new string ends, the editor
\* keeps running, and every buffer line then holds its former text with each
\* non-overlapping occurrence of old, scanned left to right, replaced by new.
C16_ReplaceAllEveryOccurrence ==
    (pc = "key" /\ ~crashed) =>
        \A pr \in {q \in ReplacePairs : q[1] # <<>>} :
            LET outs == process_keypress(World, Key("replace", 0, 0, pr[1], pr[2], TRUE))
            IN  /\ outs # {}
                /\ \A w2 \in outs :
                      /\ ~w2.crashed
                      /\ w2.editor.num_lines = editor.num_lines
                      /\ \A i \in 1..editor.num_lines :
                            Lines(w2.editor)[i] = Replaced(Lines(editor)[i], pr[1], pr[2])


RECURSIVE SplitLines(_, _, _)
\* the pieces of bytes from position pos on that the newlines separate; cur is
\* the piece being read
SplitLines(bytes, pos, cur) ==
    IF pos > Len(bytes) THEN <<cur>>
    ELSE IF bytes[pos] = CH_NL THEN <<cur>> \o SplitLines(bytes, pos + 1, <<>>)
    ELSE SplitLines(bytes, pos + 1, Append(cur, bytes[pos]))

\* the sequence of line contents a file holds; a newline that ends the last line
\* opens no further line
FileLines(bytes) ==
    IF Len(bytes) > 0 /\ bytes[Len(bytes)] = CH_NL
    THEN SplitLines(SubSeq(bytes, 1, Len(bytes) - 1), 1, <<>>)
    ELSE SplitLines(bytes, 1, <<>>)

\* C17: for every file on disk, Ctrl+O of the file followed at once by Ctrl+S
\* leaves the file holding the same sequence of line contents as before.
C17_LoadSaveRoundTrip ==
    (pc = "key" /\ ~crashed) =>
        \A name \in FileNames :
            PathOf(name) \in DOMAIN disk =>
                \A w1 \in process_keypress(World, Key("open", 0, 0, name, <<>>, TRUE)) :
                    \A w2 \in process_keypress(w1, Key("save", 0, 0, <<>>, <<>>, TRUE)) :
                        /\ ~w2.crashed
                        /\ FileLines(w2.disk[PathOf(name)]) = FileLines(disk[PathOf(name)])


\* C18: when fopen fails in Ctrl+O or in Ctrl+S, the handler returns with the
\* buffer (line contents, line count, cursor, viewport offsets) exactly as it was
\* before the key, and the editor keeps running.
C18_FailedOpenLeavesBuffer ==
    (pc = "key" /\ ~crashed) =>
        /\ \A name \in FileNames :
              \A w2 \in process_keypress(World, Key("open", 0, 0, name, <<>>, FALSE)) :
                  ~w2.crashed /\ ~w2.exited /\ w2.editor = editor
        /\ \A name \in FileNames \cup {<<>>} :
              (name # <<>> \/ current_file # <<>>) =>
                  \A w2 \in process_keypress(World, Key("save", 0, 0, name, <<>>, FALSE)) :
                      ~w2.crashed /\ ~w2.exited /\ w2.editor = editor /\ w2.disk = disk

\* an edited buffer, shown again after a Ctrl+S whose fopen failed: the text typed
\* is still there, the file on disk is the one the editor started with
C18_Witness ==
    /\ pc = "key"
    /\ ~crashed
    /\ dirty = 1
    /\ current_file = PathOf(FileF)
    /\ disk = InitDisk
    /\ editor.num_lines = 1
    /\ Lines(editor)[1] = <<CH_a>>
    /\ editor.cursor_x = 1
    /\ \A w2 \in process_keypress(World, Key("open", 0, 0, FileF, <<>>, FALSE)) :
          w2.editor = editor


\* C19: a character typed on a line that is already at the maximum length, and
\* Enter or Ctrl+D in a buffer that already has the maximum number of lines,
\* leave every line, the line count and the cursor as they were, and the editor
\* keeps running.
C19_FullIsNoOp ==
    (pc = "key" /\ ~crashed) =>
        /\ StrLen(editor, Row(editor.cursor_y)) >= MAX_COLS - 1 =>
              \A ch \in Chars :
                  \A w2 \in process_keypress(World, Key("char", ch, 0, <<>>, <<>>, TRUE)) :
                      ~w2.crashed /\ ~w2.exited /\ ~Changed(editor, w2.editor)
        /\ editor.num_lines >= MAX_LINES =>
              \A k \in {"enter", "dup"} :
                  \A w2 \in process_keypress(World, Plain(k)) :
                      ~w2.crashed /\ ~w2.exited /\ ~Changed(editor, w2.editor)

\* a buffer with the maximum number of lines, the cursor inside a line of the
\* maximum length, after a key that changed nothing in it
C19_Witness ==
    /\ pc = "key"
    /\ ~crashed
    /\ editor.num_lines = MAX_LINES
    /\ editor.cursor_x = 1
    /\ StrLen(editor, Row(editor.cursor_y)) = MAX_COLS - 1
    /\ Len(undo_stack) >= 1
    /\ ~Changed(editor, undo_stack[Len(undo_stack)])


\* L with c put in before column x (0-based)
InsertedAt(L, x, c) ==
    IF x <= Len(L) THEN SubSeq(L, 1, x) \o <<c>> \o SubSeq(L, x + 1, Len(L))
    ELSE L \o <<c>>

\* C20: in every state where the current line L is below the maximum length, a
\* printable character c typed with the cursor at column x makes the line
\* L[0..x) + c + L[x..], moves the cursor to column x + 1 on the same line, leaves
\* the line count and all other lines alone, and marks the current line dirty.
C20_InsertCharAtCursor ==
    (/\ pc = "key"
     /\ ~crashed
     /\ editor.cursor_y >= 0
     /\ editor.cursor_y < MAX_LINES
     /\ StrLen(editor, Row(editor.cursor_y)) >= 0
     /\ StrLen(editor, Row(editor.cursor_y)) < MAX_COLS - 1) =>
        \A ch \in Chars :
            \A w2 \in process_keypress(World, Key("char", ch, 0, <<>>, <<>>, TRUE)) :
                LET y == editor.cursor_y
                    L == CStr(editor, Row(y))
                IN  /\ ~w2.crashed
                    /\ CStr(w2.editor, Row(y)) = InsertedAt(L, editor.cursor_x, ch)
                    /\ \A i \in BufferLines(editor) \ {y} :
                          CStr(w2.editor, Row(i)) = CStr(editor, Row(i))
                    /\ w2.editor.cursor_x = editor.cursor_x + 1
                    /\ w2.editor.cursor_y = y
                    /\ w2.editor.num_lines = editor.num_lines
                    /\ w2.line_dirty[y] = 1


RECURSIVE LeadingSpaces(_)
\* the length of the run of space characters L starts with
LeadingSpaces(L) ==
    IF L # <<>> /\ L[1] = CH_SP THEN 1 + LeadingSpaces(Tail(L)) ELSE 0

\* the buffer lines after Enter at column x of line y (0-based), the new line
\* starting with k spaces
SplitAt(ls, y, x, k) ==
    LET L == ls[y + 1]
    IN  SubSeq(ls, 1, y)
        \o <<SubSeq(L, 1, x), Spaces(k) \o SubSeq(L, x + 1, Len(L))>>
        \o SubSeq(ls, y + 2, Len(ls))

\* C21: with room for a line, Enter at column x of line L leaves L[0..x) and
\* opens the next line as k spaces followed by L[x..], the cursor on it at column
\* k, later lines one further down, all lines dirty; k is the number of leading
\* spaces of the original L with auto-indent on, and 0 with auto-indent off.
C21_EnterSplitsAndIndents ==
    (/\ pc = "key"
     /\ ~crashed
     /\ editor.num_lines >= 1
     /\ editor.num_lines < MAX_LINES
     /\ CursorInRange(editor)) =>
        \A w2 \in process_keypress(World, Plain("enter")) :
            LET y == editor.cursor_y
                x == editor.cursor_x
                k == IF config.auto_indent = 1 THEN LeadingSpaces(Lines(editor)[y + 1]) ELSE 0
            IN  /\ ~w2.crashed
                /\ Lines(w2.editor) = SplitAt(Lines(editor), y, x, k)
                /\ w2.editor.num_lines = editor.num_lines + 1
                /\ w2.editor.cursor_y = y + 1
                /\ w2.editor.cursor_x = k
                /\ \A i \in 0..(MAX_LINES - 1) : w2.line_dirty[i] = 1


\* ls without its line y (0-based)
WithoutLine(ls, y) == SubSeq(ls, 1, y) \o SubSeq(ls, y + 2, Len(ls))

LineCountKeys ==
    {Plain(k) : k \in {"backspace", "delete", "enter", "dup", "kill", "undo", "redo"}}
    \cup {Key("open", 0, 0, name, <<>>, TRUE) : name \in FileNames}

\* C23: whenever Backspace, Delete, Enter, Ctrl+D, Ctrl+K, Ctrl+O, undo or redo
\* returns with a line count, a row offset or a column offset other than before,
\* every line is marked dirty.
C23_LineCountChangeMarksAll ==
    (pc = "key" /\ ~crashed) =>
        \A key \in LineCountKeys :
            \A w2 \in process_keypress(World, key) :
                (/\ ~w2.crashed
                 /\ \/ w2.editor.num_lines # editor.num_lines
                    \/ w2.editor.row_offset # editor.row_offset
                    \/ w2.editor.col_offset # editor.col_offset) =>
                    \A i \in 0..(MAX_LINES - 1) : w2.line_dirty[i] = 1

\* the screen has just been redrawn, so shown lines are clean, after a key that
\* took a line out of a buffer of three
C23_Witness ==
    /\ pc = "key"
    /\ ~crashed
    /\ editor.num_lines = 3
    /\ line_dirty[0] = 0
    /\ line_dirty[1] = 0
    /\ \E key \in LineCountKeys :
          \E w2 \in process_keypress(World, key) :
              /\ ~w2.crashed
              /\ w2.editor.num_lines = 2
              /\ \A i \in 0..(MAX_LINES - 1) : w2.line_dirty[i] = 1


\* the world with the token table in rule definition order: the tokens of rule
\* 1, then those of rule 2, ..., each with the pair of its rule
DefinitionOrder(w) ==
    [w EXCEPT !.token_lookup = FlattenRules(w.global_syntax_defs[w.selected_syntax].rules, 1)]

\* C24: with highlighting on, every visible line is drawn as a scan of the rules
\* in definition order with first match wins draws it, whatever order the sorted
\* lookup table has.
C24_DefinitionOrderWins ==
    (/\ pc = "key"
     /\ ~crashed
     /\ syntax_enabled # 0
     /\ selected_syntax \in 1..Len(global_syntax_defs)) =>
        \A i \in 0..(ScreenRows - 1) :
            (i < TextAreaRows(World) /\ i < editor.num_lines /\ i < MAX_LINES) =>
                draw_line(World, i, i, ScreenCols).screen[i]
                    = draw_line(DefinitionOrder(World), i, i, ScreenCols).screen[i]


RECURSIVE FirstMatching(_, _, _)
\* the index of the first definition from i on with an extension that file name
\* ends in, 0 when there is none
FirstMatching(defs, name, i) ==
    IF i > Len(defs) THEN 0
    ELSE IF sh_file_has_extension(name, defs[i]) THEN i
    ELSE FirstMatching(defs, name, i + 1)

\* the tokens of a lookup table
TableTokens(table) == {table[i].token : i \in 1..Len(table)}

\* the tokens of the rules of a definition
RuleTokens(def) ==
    UNION {{def.rules[i].tokens[j] : j \in 1..Len(def.rules[i].tokens)} :
              i \in 1..Len(def.rules)}

\* C25: once a file has been loaded, highlighting is off if no definition
\* matches the name of the file loaded last; otherwise it is on, for the first
\* matching definition, and the lookup table holds exactly the tokens of that
\* definition's rules (none at all when it has no rule).
C25_SyntaxFollowsLastLoad ==
    (~crashed /\ current_file # <<>>) =>
        LET m == FirstMatching(global_syntax_defs, current_file, 1)
        IN  IF m = 0 THEN syntax_enabled = 0
            ELSE /\ syntax_enabled = 1
                 /\ selected_syntax = m
                 /\ TableTokens(token_lookup) = RuleTokens(global_syntax_defs[m])


\* C29: the undo stack and the redo stack never hold more than UNDO_STACK_SIZE
\* entries between them, so undo() always pushes the current state on the redo
\* stack and redo() always pushes it on the undo stack.
C29_StackSumBounded ==
    /\ Len(undo_stack) + Len(redo_stack) <= UNDO_STACK_SIZE
    /\ (~crashed /\ Len(undo_stack) > 0) =>
          undo(World).redo_stack = Append(redo_stack, editor)
    /\ (~crashed /\ Len(redo_stack) > 0) =>
          redo(World).undo_stack = Append(undo_stack, editor)

\* both stacks hold an entry and together they are full
C29_Witness ==
    /\ pc = "key"
    /\ ~crashed
    /\ Len(undo_stack) > 0
    /\ Len(redo_stack) > 0
    /\ Len(undo_stack) + Len(redo_stack) = UNDO_STACK_SIZE
    /\ Len(undo(World).redo_stack) = Len(redo_stack) + 1
    /\ Len(redo(World).undo_stack) = Len(undo_stack) + 1


\* C30: after every redraw, each row of the text area shows the current state of
\* the line it displays (its text with the token and search highlighting now in
\* force) or is blank when no line of the buffer falls on it.
C30_NoStaleRow ==
    (pc = "key" /\ ~crashed) =>
        \A i \in 0..(ScreenRows - 1) :
            i < TextAreaRows(World) =>
                LET line_idx == editor.row_offset + i
                IN  IF line_idx >= 0 /\ line_idx < editor.num_lines /\ line_idx < MAX_LINES
                    THEN screen[i] = draw_line(World, i, line_idx, ScreenCols).screen[i]
                    ELSE screen[i] = BlankRow


\* what a rule says: its tokens and its colour
RuleMeaning(rule) == [tokens |-> rule.tokens, r |-> rule.r, g |-> rule.g, b |-> rule.b]

RECURSIVE GoodRules(_, _)
\* the well-formed rules of a block of the sources, in source order
GoodRules(body, i) ==
    IF i > Len(body) THEN <<>>
    ELSE (IF body[i] = "one"
          THEN <<[tokens |-> << <<CH_a>> >>, r |-> 255, g |-> 0, b |-> 0]>> ELSE <<>>)
             \o GoodRules(body, i + 1)

\* the rule of the definition for g
OtherRules == <<[tokens |-> << <<CH_b>>, <<99>> >>, r |-> 0 - 1, g |-> 3000000, b |-> 300]>>

\* defs holds a definition for the extension ext whose rules say exactly this
HasDefinition(defs, ext, rules) ==
    \E i \in 1..Len(defs) :
        /\ defs[i].extensions = <<ext>>
        /\ [k \in 1..Len(defs[i].rules) |-> RuleMeaning(defs[i].rules[k])] = rules

\* defs holds a definition for the extension ext with every one of these rules
HasDefinitionWith(defs, ext, rules) ==
    \E i \in 1..Len(defs) :
        /\ defs[i].extensions = <<ext>>
        /\ \A k \in 1..Len(rules) :
               \E j \in 1..Len(defs[i].rules) : RuleMeaning(defs[i].rules[j]) = rules[k]

\* main() has parsed highlight.syntax and is about to draw for the first time
Parsed == pc = "refresh" /\ keys = 0 /\ ~crashed /\ HighlightSyntax \in DOMAIN disk

\* C26: the definitions of a source are parsed independently: a definition whose
\* header is not followed by the opening brace is left out, and every well-formed
\* definition of the source, also one whose header is the very next line, is in
\* the output with all of its rules.
C26_DefinitionsIndependent ==
    Parsed =>
        \A s \in SourceShapes :
            SourceBytes(s) = disk[HighlightSyntax] =>
                /\ (s.first.open = "brace" /\ s.first.closed) =>
                       HasDefinitionWith(global_syntax_defs, FileF, GoodRules(s.first.body, 1))
                /\ s.first.open # "brace" =>
                       \A i \in 1..Len(global_syntax_defs) :
                           global_syntax_defs[i].extensions # <<FileF>>
                /\ s.other # "absent" =>
                       HasDefinitionWith(global_syntax_defs, FileG, OtherRules)

\* C27: in a block, a rule with no '=', with no parenthesis or with fewer than
\* three integers is dropped alone: the definition holds the well-formed rules
\* of the block, those before and those after it, in source order; a partial rule
\* before the closing brace or the end of the source is dropped as well.
C27_MalformedRuleDroppedAlone ==
    Parsed =>
        \A s \in SourceShapes :
            (SourceBytes(s) = disk[HighlightSyntax] /\ s.first.open = "brace") =>
                HasDefinition(global_syntax_defs, FileF, GoodRules(s.first.body, 1))


\* the component c registered for the value v of a rule is floor(v * 1000 / 255)
\* and lies in 0..1000
RescaledFrom(c, v) ==
    /\ c >= 0
    /\ c <= CURSES_MAX
    /\ ~TimesOverflows(v)
    /\ c = (v * CURSES_MAX) \div RGB_MAX

\* C28: with a definition selected, rule i of it has colour pair i, pair i is
\* registered on colour 16 + i - 1, and (on a terminal that can change colours)
\* that colour is registered with each component of the rule rescaled to
\* floor(v * 1000 / 255), a value in 0..1000.
C28_ColorsRegistered ==
    (/\ ~crashed
     /\ current_file # <<>>
     /\ syntax_enabled # 0
     /\ selected_syntax \in 1..Len(global_syntax_defs)) =>
        LET rules == global_syntax_defs[selected_syntax].rules
        IN  \A i \in 1..Len(rules) :
                LET color_num == FIRST_COLOR + i - 1
                IN  /\ rules[i].color_pair = i
                    /\ i \in DOMAIN terminal.pairs
                    /\ terminal.pairs[i] = color_num
                    /\ terminal.can_change_color =>
                           /\ color_num \in DOMAIN terminal.colors
                           /\ RescaledFrom(terminal.colors[color_num][1], rules[i].r)
                           /\ RescaledFrom(terminal.colors[color_num][2], rules[i].g)
                           /\ RescaledFrom(terminal.colors[color_num][3], rules[i].b)

\* the columns of a row of cols columns left for text: cols minus the gutter
AvailableCols(cols) ==
    cols - (IF show_line_numbers # 0 THEN LINE_NUMBER_WIDTH ELSE 0)

\* line[col_offset .. min(len, col_offset + available columns)), 1-based
VisibleChars(line, cols) ==
    LET lo == editor.col_offset
        hi == IF Len(line) < lo + AvailableCols(cols) THEN Len(line)
              ELSE lo + AvailableCols(cols)
    IN  IF hi > lo THEN [k \in 1..(hi - lo) |-> line[lo + k]] ELSE <<>>

\* C31: for every line, column offset, gutter, search term and token table
\* drawn, and on a screen of every width, the characters draw_line puts on the
\* row are exactly line[col_offset .. min(len, col_offset + available
\* columns)), once each and in order; the first span starts at the first text
\* column and every span starts at the column after the last cell of the span
\* before it; every iteration of the loop consumes at least one character of
\* the line and starts where the one before it stopped; and the row a call has
\* drawn holds those characters for the width it was called with.
C31_DrawLineShowsVisibleChars ==
    LET line == CStr(editor, Row(0))
        Chars_(cells) == [k \in 1..Len(cells) |-> cells[k][1]]
    IN  /\ \A cols \in ViewWidths :
              LET spans == LineSpans(World, 0, cols)
              IN  /\ Chars_(SpanCells(line, spans, 1)) = VisibleChars(line, cols)
                  /\ \A k \in 1..Len(spans) :
                        /\ spans[k].n >= 1
                        /\ spans[k].shown >= 1
                        /\ spans[k].j = (IF k = 1 THEN editor.col_offset
                                         ELSE spans[k - 1].j + spans[k - 1].n)
                        /\ spans[k].col =
                               (IF k = 1 THEN cols - AvailableCols(cols)
                                ELSE spans[k - 1].col + spans[k - 1].shown)
        /\ pc = "drawn" =>
              \E cols \in ViewWidths :
                  Chars_(screen[0].cells) = VisibleChars(line, cols)

\* C31 witness: line numbers on, column offset 1, search term "ab", token "b":
\* the line "bab" drawn on a screen with one text column shows the "a" alone, in
\* the search attribute, cut from the span "ab" that starts at the offset.
C31_Witness ==
    /\ pc = "drawn"
    /\ show_line_numbers = 1
    /\ editor.col_offset = 1
    /\ g_searchActive = 1
    /\ g_searchTerm = <<CH_a, CH_b>>
    /\ \E i \in 1..Len(token_lookup) : token_lookup[i].token = <<CH_b>>
    /\ CStr(editor, Row(0)) = <<CH_b, CH_a, CH_b>>
    /\ screen[0] = [num |-> 1, cells |-> <<<<CH_a, SEARCH_COLOR_PAIR>>>>]

\* the keys of Spec other than Ctrl+O and Ctrl+S
EditingKeys ==
    {Key("char", ch, 0, <<>>, <<>>, TRUE) : ch \in Chars}
    \cup {Plain(k) : k \in {"tab", "backspace", "delete", "enter", "left", "right",
                            "up", "down", "home", "end", "pgup", "pgdn", "wheel_up",
                            "wheel_down", "top", "bottom", "kill", "dup", "undo",
                            "redo", "help", "shell_toggle", "shell_run", "toggle_ln"}}
    \cup {Key("click", y, x, <<>>, <<>>, TRUE) : y \in ClickRows, x \in ClickCols}
    \cup {Key("goto", 0, 0, str, <<>>, TRUE) : str \in GotoStrings}
    \cup {Key("replace", 0, 0, pr[1], pr[2], TRUE) : pr \in ReplacePairs}
    \cup {Key("search", 0, 0, term, <<>>, TRUE) : term \in SearchTerms}

\* Ctrl+O and Ctrl+S with every answer to the prompt, the file opening or not
FileKeys ==
    {Key("open", 0, 0, name, <<>>, ok) : name \in FileNames \cup {<<>>}, ok \in BOOLEAN}
    \cup {Key("save", 0, 0, name, <<>>, ok) : name \in {<<>>, FileF}, ok \in BOOLEAN}

\* the key loads or saves a file, and the file opens
LoadsOrSaves(w, key) ==
    /\ key.ok
    /\ \/ key.k = "open" /\ key.s # <<>> /\ PathOf(key.s) \in DOMAIN w.disk
       \/ key.k = "save" /\ (w.current_file # <<>> \/ key.s # <<>>)

\* C32: the modified flag is clear only while the line contents are those of
\* the last successful load or save (of the initial buffer before the first).
\* Step by step: a key that loads or saves a file successfully leaves the flag
\* clear; any other key leaves the flag clear only if it was clear before and
\* the key left the line contents as they were.
C32_DirtyTracksContents ==
    (pc = "key" /\ ~crashed) =>
        \A key \in EditingKeys \cup FileKeys :
            \A w2 \in process_keypress(World, key) :
                ~w2.crashed =>
                    IF LoadsOrSaves(World, key) THEN w2.dirty = 0
                    ELSE w2.dirty = 0 =>
                             /\ dirty = 0
                             /\ Lines(w2.editor) = Lines(editor)

\* C33: from every reachable state, Ctrl+R with any pair of prompt answers
\* leaves the undo stack, the redo stack and the cursor position as they were;
\* an undo() right after it changes nothing when the undo stack is empty, and
\* otherwise installs the newest snapshot taken before the replacement, which
\* is not the buffer the replacement started from unless the two are equal.
C33_ReplaceAllKeepsHistory ==
    (pc = "key" /\ ~crashed) =>
        \A pr \in ReplacePairs :
            \A w2 \in process_keypress(World, Key("replace", 0, 0, pr[1], pr[2], TRUE)) :
                ~w2.crashed =>
                    /\ w2.undo_stack = undo_stack
                    /\ w2.redo_stack = redo_stack
                    /\ w2.editor.cursor_x = editor.cursor_x
                    /\ w2.editor.cursor_y = editor.cursor_y
                    /\ IF undo_stack = <<>> THEN undo(w2) = w2
                       ELSE undo(w2).editor = undo_stack[Len(undo_stack)]

\* C33 witness: "a" typed into the empty buffer, every "a" replaced by "aa",
\* then Ctrl+Z: the buffer is the empty one of the snapshot taken before the
\* "a" was typed, not the line "a"; the replaced line "aa", with the cursor
\* still behind its first character, is on the redo stack.
C33_Witness ==
    /\ ~crashed
    /\ current_file = <<>>
    /\ undo_stack = <<>>
    /\ Len(redo_stack) = 1
    /\ Lines(redo_stack[1]) = << <<CH_a, CH_a>> >>
    /\ redo_stack[1].cursor_x = 1
    /\ Lines(editor) = << <<>> >>
    /\ editor.cursor_x = 0

\* C34: from every reachable state, Ctrl+O of a file that opens replaces the
\* lines by those of the file, puts the cursor and the viewport at the origin,
\* makes the file the current file and leaves the undo stack and the redo stack
\* as they were; an undo() right after it (the undo stack not empty) installs
\* the newest snapshot of the buffer edited before the load and leaves the name
\* of the loaded file as the current file.
C34_LoadKeepsHistory ==
    (pc = "key" /\ ~crashed) =>
        \A name \in FileNames :
            \A w2 \in process_keypress(World, Key("open", 0, 0, name, <<>>, TRUE)) :
                (~w2.crashed /\ PathOf(name) \in DOMAIN disk) =>
                    /\ Lines(w2.editor) = LoadLines(disk[PathOf(name)], 1, <<>>)
                           \/ (Lines(w2.editor) = << <<>> >>
                                  /\ LoadLines(disk[PathOf(name)], 1, <<>>) = <<>>)
                    /\ w2.editor.cursor_x = 0
                    /\ w2.editor.cursor_y = 0
                    /\ w2.editor.row_offset = 0
                    /\ w2.editor.col_offset = 0
                    /\ w2.current_file = PathOf(name)
                    /\ w2.undo_stack = undo_stack
                    /\ w2.redo_stack = redo_stack
                    /\ Len(undo_stack) > 0 =>
                           /\ undo(w2).editor = undo_stack[Len(undo_stack)]
                           /\ undo(w2).current_file = PathOf(name)

\* C34 witness: "a" typed into the empty buffer, the file g (" a") loaded, then
\* Ctrl+Z: the buffer is the empty one of the snapshot taken before the "a" was
\* typed, the loaded line " a" is on the redo stack, and the current file is
\* still saves/g.
C34_Witness ==
    /\ ~crashed
    /\ current_file = PathOf(FileG)
    /\ undo_stack = <<>>
    /\ Len(redo_stack) = 1
    /\ Lines(redo_stack[1]) = << <<CH_SP, CH_a>> >>
    /\ Lines(editor) = << <<>> >>
    /\ dirty = 1

====
